---- MODULE Spec2Model ----
(***************************************************************************)
(* Model of the PR test generator GitHub Action: the action entry point    *)
(* (src/index.js), the PRTestGenerator orchestrator in its legacy and its  *)
(* service-based form, the TestExecutor that runs the generated script as  *)
(* a child process, and the text classifier determineTestSuccess.          *)
(*                                                                         *)
(* Text is a sequence of one-character strings, so that lower-casing,      *)
(* concatenation and substring search are computed as the code does.       *)
(***************************************************************************)
EXTENDS Integers, Sequences, FiniteSets, TLC

VARIABLES
  gen,                    \* which PRTestGenerator: "legacy" or "service"
  executor,               \* which TestExecutor the service generator uses
  isPR,                   \* github.context.payload.pull_request is set
  hasInputs,              \* the required inputs are present
  commentOnPR,            \* config.commentOnPR
  moduleResolvable,       \* require.resolve("magnitude-core") succeeds
  skipDependencyInstall,  \* TestExecutor.skipDependencyInstall
  pc,                     \* position of the action's single thread of control
  err,                    \* the error being thrown / caught ("none" if none)
  effects,                \* external calls made so far (a history set)
  runOutcome,             \* PRTestGenerator.run(): "none", "returned", "threw"
  resultSuccess,          \* results.success of the value run() returned
  failed,                 \* core.setFailed has been called
  failedMsg,              \* the message given to core.setFailed
  outputs,                \* core.setOutput has been called
  trouble,                \* failures that have happened so far (a history set)
  testResults,            \* legacy executeTests result (<<>> if none)
  comment,                \* the result comment posted to the PR (legacy)
  script,                 \* what the generated script does when it is run
  tempFile,               \* temp-test.js exists in the working directory
  child,                  \* the child process
  settled,                \* the promise of executeWithRealTimeLogging
  outcome,                \* the value or error the promise settled with
  timer,                  \* the timeout timer
  kills,                  \* number of SIGTERM signals sent
  stdoutBuf,              \* accumulated stdout of the child
  stderrBuf,              \* accumulated stderr of the child
  emitted,                \* the chunks the child has written, per stream
  hostLog,                \* the lines the data handlers gave to core.info
                          \* and to core.error
  report,                 \* the report of executeTestsAndGenerateReport
  baseUrl,                \* this.baseUrl ("" when the input is not given)
  waitForPreview,         \* this.waitForPreview, in seconds
  previewUrls,            \* prContext.previewUrls
  polls,                  \* getPreviewUrls calls made by waitForPreviewUrls
  elapsed,                \* Date.now() - startTime in waitForPreviewUrls, ms
  urls,                   \* what the last getPreviewUrls call returned
  steps,                  \* the LLM steps generateTests has completed
  arg,                    \* input of the pure function under check
  res                     \* its result (<<>> before it is applied)

cfgVars == <<gen, executor, isPR, hasInputs, commentOnPR, moduleResolvable,
             skipDependencyInstall>>
runVars == <<pc, err, effects, trouble, runOutcome, resultSuccess, failed,
             failedMsg, outputs, testResults, comment, script>>
execVars == <<tempFile, child, settled, outcome, timer, kills, stdoutBuf,
              stderrBuf, emitted, hostLog, report>>
previewVars == <<baseUrl, waitForPreview, previewUrls, polls, elapsed, urls>>
genVars == <<steps>>
fnVars == <<arg, res>>
vars == <<cfgVars, runVars, execVars, previewVars, genVars, fnVars>>

----------------------------------------------------------------------------
(* Bounds *)

\* this.waitForPreview = config.waitForPreview || 60
DefaultWaitForPreview == 60

MaxFragments == 2
MaxChunks == 2
MaxCases == 2

----------------------------------------------------------------------------
(* Text *)

UpperCase == <<"A","B","C","D","E","F","G","H","I","J","K","L","M",
               "N","O","P","Q","R","S","T","U","V","W","X","Y","Z">>
LowerCase == <<"a","b","c","d","e","f","g","h","i","j","k","l","m",
               "n","o","p","q","r","s","t","u","v","w","x","y","z">>

LowerChar(c) ==
  IF \E i \in DOMAIN UpperCase : UpperCase[i] = c
    THEN LowerCase[CHOOSE i \in DOMAIN UpperCase : UpperCase[i] = c]
    ELSE c

toLowerCase(s) == [i \in 1..Len(s) |-> LowerChar(s[i])]

includes(s, p) ==
  \E i \in 0..(Len(s) - Len(p)) : \A j \in 1..Len(p) : s[i + j] = p[j]

includesAny(s, ps) == \E p \in ps : includes(s, p)

RECURSIVE Concat(_)
Concat(ss) == IF ss = <<>> THEN <<>> ELSE Head(ss) \o Concat(Tail(ss))

----------------------------------------------------------------------------
(* determineTestSuccess *)

failureIndicators == <<
  <<"T","e","s","t"," ","s","u","i","t","e"," ","f","a","i","l","e","d">>,
  <<"p","r","o","c","e","s","s",".","e","x","i","t","(","1",")">>,
  <<"A","l","l"," ","t","e","s","t","s"," ","f","a","i","l","e","d">>,
  <<"F","A","I","L","E","D">>,
  <<"E","R","R","O","R",":"," ","T","e","s","t">> >>

successIndicators == <<
  <<"A","l","l"," ","t","e","s","t","s"," ","c","o","m","p","l","e","t","e","d",
    " ","s","u","c","c","e","s","s","f","u","l","l","y">>,
  <<"T","e","s","t","s"," ","p","a","s","s","e","d">>,
  <<"S","U","C","C","E","S","S">>,
  <<"T","e","s","t"," ","c","o","m","p","l","e","t","e","d">> >>

some(indicators, output) ==
  \E k \in DOMAIN indicators : includes(output, toLowerCase(indicators[k]))

determineTestSuccessSuccessFirst(stdout, stderr, exitCode) ==
  LET output == toLowerCase(stdout \o stderr) IN
  IF some(successIndicators, output) THEN TRUE
  ELSE IF some(failureIndicators, output) THEN FALSE
  ELSE exitCode = 0

determineTestSuccess(stdout, stderr, exitCode) ==
  LET output == toLowerCase(stdout \o stderr) IN
  IF some(failureIndicators, output) THEN FALSE
  ELSE IF some(successIndicators, output) THEN TRUE
  ELSE exitCode = 0

----------------------------------------------------------------------------
(* Texts a generated script prints *)

TxtAllOk == <<"A","l","l"," ","t","e","s","t","s"," ","c","o","m","p","l","e",
              "t","e","d"," ","s","u","c","c","e","s","s","f","u","l","l","y">>
TxtErrFoo == <<"E","R","R","O","R",":"," ","T","e","s","t"," ","f","o","o"," ",
               "f","a","i","l","e","d">>
TxtExit == <<"p","r","o","c","e","s","s",".","e","x","i","t","(","1",")">>
TxtPassed == <<"T","E","S","T","S"," ","P","A","S","S","E","D">>
TxtTest == <<"T","e","s","t"," ">>
TxtCompleted == <<"c","o","m","p","l","e","t","e","d">>
TxtOk == <<"o","k">>
TxtNl == <<"\n">>

Fragments == {TxtAllOk, TxtErrFoo, TxtExit, TxtPassed, TxtTest, TxtCompleted,
              TxtOk, TxtNl}

FragmentSeqs == UNION {[1..n -> Fragments] : n \in 0..MaxFragments}

Texts == {Concat(fs) : fs \in FragmentSeqs}

ExitCodes == {0, 1, 2}

----------------------------------------------------------------------------
(* TestExecutor.parseTestCasesFromCode (part_004): the cases of a script   *)

\* What \s and \d of the regular expressions match in the texts used here.
Whitespace == {" ", "\t", "\n"}

Digits == {"0", "1", "2", "3", "4", "5", "6", "7", "8", "9"}

\* String.prototype.split on a one-character separator.
RECURSIVE split(_, _)
split(s, sep) ==
  IF \E i \in DOMAIN s : s[i] = sep
    THEN LET i == CHOOSE i \in DOMAIN s :
                    s[i] = sep /\ \A j \in 1..(i - 1) : s[j] # sep
         IN <<SubSeq(s, 1, i - 1)>> \o split(SubSeq(s, i + 1, Len(s)), sep)
    ELSE <<s>>

\* String.prototype.trim
RECURSIVE trim(_)
trim(s) ==
  IF s = <<>> THEN s
  ELSE IF Head(s) \in Whitespace THEN trim(Tail(s))
  ELSE IF s[Len(s)] \in Whitespace THEN trim(SubSeq(s, 1, Len(s) - 1))
  ELSE s

\* String.prototype.substring(0, n)
substring(s, n) == SubSeq(s, 1, IF Len(s) < n THEN Len(s) ELSE n)

\* The position after the longest run of characters of class cls that
\* starts at position p: what a greedy cls* consumes.
skip(s, p, cls) ==
  CHOOSE e \in p..(Len(s) + 1) :
    /\ \A k \in p..(e - 1) : s[k] \in cls
    /\ e = Len(s) + 1 \/ s[e] \notin cls

\* The literal lit (given in lower case) stands at position p of s, case
\* ignored as under the i flag.
literalAt(s, p, lit) ==
  /\ p >= 1
  /\ p + Len(lit) - 1 <= Len(s)
  /\ \A j \in 1..Len(lit) : LowerChar(s[p + j - 1]) = lit[j]

\* Test\s*\d*:?\s*(.+) tried at position p of a line: <<group 2>>, or <<>>
\* when it does not match. The quantifiers are greedy; when they leave
\* nothing for (.+), backtracking hands it the last character of the line.
testAlternative(line, p) ==
  IF ~literalAt(line, p, <<"t","e","s","t">>) THEN <<>>
  ELSE LET q0 == p + 4
           q1 == skip(line, q0, Whitespace)
           q2 == skip(line, q1, Digits)
           q3 == IF q2 <= Len(line) /\ line[q2] = ":" THEN q2 + 1 ELSE q2
           q4 == skip(line, q3, Whitespace)
       IN IF q4 <= Len(line) THEN <<SubSeq(line, q4, Len(line))>>
          ELSE IF q4 > q0 THEN <<SubSeq(line, Len(line), Len(line))>>
          ELSE <<>>

\* (\d+)\.\s*(.+) tried at position p of a line: <<group 4>>, or <<>>.
numberAlternative(line, p) ==
  LET d == skip(line, p, Digits) IN
  IF d = p \/ d > Len(line) \/ line[d] # "." THEN <<>>
  ELSE LET w == skip(line, d + 1, Whitespace)
       IN IF w <= Len(line) THEN <<SubSeq(line, w, Len(line))>>
          ELSE IF w > d + 1 THEN <<SubSeq(line, Len(line), Len(line))>>
          ELSE <<>>

\* The regular expression tried at position i of a line.
testCommentMatchAt(line, i) ==
  IF ~literalAt(line, i, <<"/","/">>) THEN <<>>
  ELSE LET p == skip(line, i + 2, Whitespace)
       IN IF testAlternative(line, p) # <<>> THEN testAlternative(line, p)
          ELSE numberAlternative(line, p)

\* line.match(/\/\/\s*(Test\s*\d*:?\s*(.+)|(\d+)\.\s*(.+))/i): the leftmost
\* match; <<description>> (group 2 or group 4, never empty), or <<>>.
testCommentMatch(line) ==
  IF \E i \in DOMAIN line : testCommentMatchAt(line, i) # <<>>
    THEN LET i == CHOOSE i \in DOMAIN line :
                    /\ testCommentMatchAt(line, i) # <<>>
                    /\ \A j \in 1..(i - 1) : testCommentMatchAt(line, j) = <<>>
         IN testCommentMatchAt(line, i)
    ELSE <<>>

TestCase(name, lineNumber) ==
  [name |-> name, status |-> "GENERATED", lineNumber |-> lineNumber]

RECURSIVE lineCommentCasesNoTrim(_, _)
lineCommentCasesNoTrim(lines, index) ==
  IF index > Len(lines) THEN <<>>
  ELSE LET m == testCommentMatch(lines[index])
       IN (IF m # <<>> /\ Len(m[1]) > 5
             THEN <<TestCase(m[1], index)>>
             ELSE <<>>)
          \o lineCommentCasesNoTrim(lines, index + 1)

\* Rule 1, the single-line comments: lines.forEach from line `index` on.
RECURSIVE lineCommentCases(_, _)
lineCommentCases(lines, index) ==
  IF index > Len(lines) THEN <<>>
  ELSE LET m == testCommentMatch(lines[index])
       IN (IF m # <<>> /\ Len(trim(m[1])) > 5
             THEN <<TestCase(trim(m[1]), index)>>
             ELSE <<>>)
          \o lineCommentCases(lines, index + 1)

\* The first position >= p at which the literal lit stands in s, or 0.
indexOf(s, lit, p) ==
  IF \E i \in p..Len(s) : literalAt(s, i, lit)
    THEN CHOOSE i \in p..Len(s) :
           literalAt(s, i, lit) /\ \A j \in p..(i - 1) : ~literalAt(s, j, lit)
    ELSE 0

\* testCode.match(/\/\*[\s\S]*?\*\//g) from position p on: the block
\* comments in source order, each from its opening to the nearest closing.
RECURSIVE blockComments(_, _)
blockComments(s, p) ==
  LET open == indexOf(s, <<"/","*">>, p)
      close == IF open = 0 THEN 0 ELSE indexOf(s, <<"*","/">>, open + 2)
  IN IF open = 0 \/ close = 0 THEN <<>>
     ELSE <<SubSeq(s, open, close + 1)>> \o blockComments(s, close + 2)

\* comment.replace(/\/\*|\*\//g, ""): the delimiters are removed from left
\* to right, the leftmost one first.
RECURSIVE removeDelimiters(_)
removeDelimiters(s) ==
  LET open == indexOf(s, <<"/","*">>, 1)
      close == indexOf(s, <<"*","/">>, 1)
      first == IF open = 0 THEN close
               ELSE IF close = 0 THEN open
               ELSE IF open < close THEN open ELSE close
  IN IF first = 0 THEN s
     ELSE SubSeq(s, 1, first - 1)
            \o removeDelimiters(SubSeq(s, first + 2, Len(s)))

TxtTODO == <<"T","O","D","O">>

TxtEllipsis == <<".",".",".">>

\* Rule 2, the block comments: blockComments.forEach from `index` on.
RECURSIVE blockCommentCases(_, _)
blockCommentCases(comments, index) ==
  IF index > Len(comments) THEN <<>>
  ELSE LET cleanComment == trim(removeDelimiters(comments[index]))
       IN (IF Len(cleanComment) > 20 /\ ~includes(cleanComment, TxtTODO)
             THEN <<TestCase(substring(cleanComment, 100) \o
                               (IF Len(cleanComment) > 100 THEN TxtEllipsis
                                                           ELSE <<>>),
                             index)>>
             ELSE <<>>)
          \o blockCommentCases(comments, index + 1)

\* No character of s in from..(to - 1) is a line terminator: `.*` can span it.
sameLine(s, from, to) == \A k \in from..(to - 1) : s[k] # "\n"

\* /await\s+agent\.act\(['"].*<word1>.*<word2>/i matches somewhere in s;
\* word2 = <<>> stands for the patterns with one word.
actPattern(s, word1, word2) ==
  \E i \in DOMAIN s :
    /\ literalAt(s, i, <<"a","w","a","i","t">>)
    /\ LET p == skip(s, i + 5, Whitespace)
           r == p + 11
       IN /\ p > i + 5
          /\ literalAt(s, p, <<"a","g","e","n","t",".","a","c","t","(">>)
          /\ p + 10 <= Len(s)
          /\ s[p + 10] \in {"'", "\""}
          /\ \E a \in r..Len(s) :
               /\ literalAt(s, a, word1)
               /\ sameLine(s, r, a)
               /\ \/ word2 = <<>>
                  \/ \E b \in (a + Len(word1))..Len(s) :
                       /\ literalAt(s, b, word2)
                       /\ sameLine(s, a, b)

\* Whether each of the four patterns, in their order, matches testCode.
patterns(s) == <<
  \E i \in DOMAIN s :
    literalAt(s, i, <<"a","g","e","n","t",".","n","a","v","i","g","a","t","e","(">>),
  actPattern(s, <<"n","a","v","i","g","a","t","e">>, <<>>),
  actPattern(s, <<"c","l","i","c","k">>, <<"b","u","t","t","o","n">>),
  actPattern(s, <<"v","e","r","i","f","y">>, <<>>) >>

TxtTestScenario == <<"T","e","s","t"," ","S","c","e","n","a","r","i","o"," ">>

DigitChar == <<"1", "2", "3", "4">>

\* Rule 3, the automation calls: patterns.forEach from pattern k on, with
\* testCount the number of the next scenario.
RECURSIVE patternCases(_, _, _)
patternCases(s, k, testCount) ==
  IF k > Len(patterns(s)) THEN <<>>
  ELSE IF patterns(s)[k]
    THEN <<TestCase(TxtTestScenario \o <<DigitChar[testCount]>>, 1)>>
           \o patternCases(s, k + 1, testCount + 1)
    ELSE patternCases(s, k + 1, testCount)

TxtGenerated == <<"G","e","n","e","r","a","t","e","d"," ","t","e","s","t"," ","e","x",
      "e","c","u","t","i","o","n">>

parseTestCasesFromCodeAllRules(testCode) ==
  LET rule1 == lineCommentCases(split(testCode, "\n"), 1)
      rule2 == blockCommentCases(blockComments(testCode, 1), 1)
      rule3 == patternCases(testCode, 1, 1)
      all == rule1 \o rule2 \o rule3
  IN IF all # <<>> THEN all ELSE <<TestCase(TxtGenerated, 1)>>

parseTestCasesFromCode(testCode) ==
  LET rule1 == lineCommentCases(split(testCode, "\n"), 1)
      rule2 == blockCommentCases(blockComments(testCode, 1), 1)
      rule3 == patternCases(testCode, 1, 1)
  IN IF rule1 # <<>> THEN rule1
     ELSE IF rule2 # <<>> THEN rule2
     ELSE IF rule3 # <<>> THEN rule3
     ELSE <<TestCase(TxtGenerated, 1)>>

----------------------------------------------------------------------------
(* PRTestGenerator.stripAnsiCodes and sanitizeOutput (part_002)            *)

Letters == {UpperCase[i] : i \in DOMAIN UpperCase} \cup
           {LowerCase[i] : i \in DOMAIN LowerCase}

Alphanumeric == Letters \cup Digits

\* The characters of s that are not white space: what [^\s] matches in s.
NonSpace(s) == {s[k] : k \in DOMAIN s} \ Whitespace

\* The literal lit stands at position p of s, case observed.
startsWithAt(s, p, lit) ==
  /\ p >= 1
  /\ p + Len(lit) - 1 <= Len(s)
  /\ \A j \in 1..Len(lit) : s[p + j - 1] = lit[j]

\* The first position >= p at which a match of the kind EndOf recognises
\* starts, or 0. EndOf(s, i) is the position after the match that starts at
\* i, or 0 when none starts there.
firstMatch(s, p, EndOf(_, _)) ==
  IF \E i \in p..Len(s) : EndOf(s, i) # 0
    THEN CHOOSE i \in p..Len(s) :
           EndOf(s, i) # 0 /\ \A j \in p..(i - 1) : EndOf(s, j) = 0
    ELSE 0

\* s.replace(/<pattern>/g, replacement): the matches are replaced from left
\* to right, each search starting where the last match ended.
RECURSIVE replaceAll(_, _, _)
replaceAll(s, EndOf(_, _), replacement) ==
  LET i == firstMatch(s, 1, EndOf) IN
  IF i = 0 THEN s
  ELSE SubSeq(s, 1, i - 1) \o replacement
         \o replaceAll(SubSeq(s, EndOf(s, i), Len(s)), EndOf, replacement)

\* The escape character U+001B, as one character of a text.
Esc == "U+001B"

\* /\u001b\[[0-9;]*m/ at position i.
ansiCodeEnd(s, i) ==
  IF ~startsWithAt(s, i, <<Esc, "[">>) THEN 0
  ELSE LET e == skip(s, i + 2, Digits \cup {";"})
       IN IF e <= Len(s) /\ s[e] = "m" THEN e + 1 ELSE 0

stripAnsiCodes(text) == replaceAll(text, ansiCodeEnd, <<>>)

\* /sk-[a-zA-Z0-9]{48}/ at position i.
apiKeyEnd(s, i) ==
  IF /\ startsWithAt(s, i, <<"s","k","-">>)
     /\ i + 50 <= Len(s)
     /\ \A k \in (i + 3)..(i + 50) : s[k] \in Alphanumeric
    THEN i + 51
    ELSE 0

\* /ANTHROPIC_API_KEY[=:]\s*[^\s]+/i at position i, with a value of a single
\* character.
assignmentEndOneChar(s, i) ==
  IF /\ literalAt(s, i, <<"a","n","t","h","r","o","p","i","c","_","a","p","i","_","k","e","y">>)
     /\ i + 17 <= Len(s)
     /\ s[i + 17] \in {"=", ":"}
     /\ skip(s, i + 18, Whitespace) <= Len(s)
    THEN skip(s, i + 18, Whitespace) + 1
    ELSE 0

\* /ANTHROPIC_API_KEY[=:]\s*[^\s]+/i at position i.
assignmentEnd(s, i) ==
  IF /\ literalAt(s, i, <<"a","n","t","h","r","o","p","i","c","_","a","p","i","_","k","e","y">>)
     /\ i + 17 <= Len(s)
     /\ s[i + 17] \in {"=", ":"}
     /\ skip(s, i + 18, Whitespace) <= Len(s)
    THEN skip(s, skip(s, i + 18, Whitespace), NonSpace(s))
    ELSE 0

TxtRedacted == <<"[","A","P","I","_","K","E","Y","_","R","E","D","A","C","T","E","D",
      "]">>

TxtAssignmentRedacted == <<"A","N","T","H","R","O","P","I","C","_","A","P","I","_","K","E","Y",
      "=","[","A","P","I","_","K","E","Y","_","R","E","D","A","C","T","E",
      "D","]">>

\* An API-key-shaped token: the prefix and 48 alphanumeric characters.
TxtApiKey == <<"s","k","-","a","B","3","a","B","3","a","B","3","a","B","3","a","B",
      "3","a","B","3","a","B","3","a","B","3","a","B","3","a","B","3","a",
      "B","3","a","B","3","a","B","3","a","B","3","a","B","3","a","B","3">>

sanitizeOutput(text) ==
  IF text = <<>> THEN text
  ELSE replaceAll(replaceAll(text, apiKeyEnd, TxtRedacted),
                  assignmentEnd, TxtAssignmentRedacted)

----------------------------------------------------------------------------
(* PRTestGenerator.parseTestResults and formatResultsComment (part_002)    *)

\* The characters U+25C6, U+2713 and U+2717 of the agent's narration, each
\* as one character of a text.
ActMarker == <<"U+25C6"," ","[","a","c","t","]">>
DoneMarker == <<"U+2713"," ","d","o","n","e">>
FailureMarkers == {<<"U+2717">>, <<"F","A","I","L","E","D">>, <<"E","R","R","O","R">>}

TxtNoOutput == <<"N","o"," ","o","u","t","p","u","t">>

\* s.replace(lit, ""): the first occurrence of lit is removed.
replaceFirst(s, lit) ==
  IF includes(s, lit)
    THEN LET i == CHOOSE i \in DOMAIN s :
                    /\ startsWithAt(s, i, lit)
                    /\ \A j \in 1..(i - 1) : ~startsWithAt(s, j, lit)
         IN SubSeq(s, 1, i - 1) \o SubSeq(s, i + Len(lit), Len(s))
    ELSE s

\* The loop over the lines from line i on: the actions.
RECURSIVE actionsFrom(_, _)
actionsFrom(lines, i) ==
  IF i > Len(lines) THEN <<>>
  ELSE (IF includes(trim(lines[i]), ActMarker)
          THEN <<trim(replaceFirst(trim(lines[i]), ActMarker))>>
          ELSE <<>>)
       \o actionsFrom(lines, i + 1)

\* prevLines.find: the first of the up to 5 lines before line i that has the
\* action marker, <<>> if none has.
actionLineBefore(lines, i) ==
  LET from == IF i - 5 < 1 THEN 1 ELSE i - 5
      has == {k \in from..(i - 1) : includes(lines[k], ActMarker)}
  IN IF has = {} THEN <<>>
     ELSE <<lines[CHOOSE k \in has : \A h \in has : k <= h]>>

\* The loop over the lines from line i on: the completed tasks.
RECURSIVE completedTasksFrom(_, _)
completedTasksFrom(lines, i) ==
  IF i > Len(lines) THEN <<>>
  ELSE (IF /\ includes(trim(lines[i]), DoneMarker)
           /\ actionLineBefore(lines, i) # <<>>
          THEN <<trim(replaceFirst(actionLineBefore(lines, i)[1], ActMarker))>>
          ELSE <<>>)
       \o completedTasksFrom(lines, i + 1)

\* The loop over the lines from line i on: the failures.
RECURSIVE failuresFrom(_, _)
failuresFrom(lines, i) ==
  IF i > Len(lines) THEN <<>>
  ELSE (IF includesAny(trim(lines[i]), FailureMarkers)
          THEN <<trim(lines[i])>>
          ELSE <<>>)
       \o failuresFrom(lines, i + 1)

\* The analysis section. Of the text it is made of, the counts, the
\* completed tasks (each on a line of its own, verbatim) and the overall
\* assessment are kept; its sorting and authentication paragraphs consist
\* of fixed sentences and counts.
parseTestResults(stdout) ==
  IF stdout = <<>> \/ trim(stdout) = TxtNoOutput
    THEN [noOutput |-> TRUE, actions |-> 0, completedTasks |-> <<>>,
          failures |-> 0, assessment |-> "none"]
    ELSE LET lines == split(stdout, "\n")
             actions == actionsFrom(lines, 1)
             completedTasks == completedTasksFrom(lines, 1)
             failures == failuresFrom(lines, 1)
         IN [noOutput |-> FALSE,
             actions |-> Len(actions),
             completedTasks |-> completedTasks,
             failures |-> Len(failures),
             assessment |->
               IF failures = <<>> /\ completedTasks # <<>> THEN "completed"
               ELSE IF failures # <<>> THEN "failed"
               ELSE "limited"]

\* The texts of the result comment that come from the run.
formatResultsComment(results) ==
  LET rawStdout == IF results.stdout # <<>>
                     THEN stripAnsiCodes(results.stdout)
                     ELSE TxtNoOutput
      rawStderr == IF results.stderr # <<>>
                     THEN stripAnsiCodes(results.stderr)
                     ELSE <<>>
  IN [status |-> IF results.success THEN "PASSED" ELSE "FAILED",
      stdout |-> IF rawStdout # TxtNoOutput THEN sanitizeOutput(rawStdout)
                                            ELSE TxtNoOutput,
      analysis |-> parseTestResults(rawStdout),
      stderr |-> IF rawStderr # <<>> THEN sanitizeOutput(rawStderr) ELSE <<>>,
      browserErrors |->
        [k \in DOMAIN results.browserErrors |->
           sanitizeOutput(results.browserErrors[k])]]

NoComment == [status |-> "none"]

----------------------------------------------------------------------------
(* The generated script and the environment *)

\* A piece of the agent's narration, in colour: an action that names an API
\* key, and its completion.
TxtNarration ==
  <<Esc>> \o <<"[","3","2","m">> \o ActMarker \o <<" ","U","s","e"," ">> \o TxtApiKey
    \o <<Esc>> \o <<"[","0","m">> \o TxtNl \o DoneMarker \o TxtNl

ScriptChunks == {TxtAllOk, TxtErrFoo, TxtNarration}

ChunkSeqs == UNION {[1..n -> ScriptChunks] : n \in 0..MaxChunks}

\* mode "exit": the script ends by itself with exitCode; "crash": it ends
\* by itself through a signal, with no exit code; "hang": it runs until it
\* is signalled; "ignore": it runs on and ignores SIGTERM.
Scripts ==
  {s \in [out : ChunkSeqs, err : {<<>>, <<TxtOk>>}, exitCode : {0, 1},
          mode : {"exit", "crash", "hang", "ignore"}] :
     s.mode # "exit" => s.exitCode = 1}

NoScript == [out |-> <<>>, err |-> <<>>, exitCode |-> 0, mode |-> "none"]

NoChild == [st |-> "none", code |-> "none", signal |-> "none"]

\* The promise of executeWithRealTimeLogging has not settled.
NoOutcome == [kind |-> "none"]

NoReport == [kind |-> "none"]

Generators == {"legacy", "service"}

\* "A": execAsync-based executor that keeps testCases (part_004:9-271);
\* "B": spawn-based executor behind checkDependency (part_004:281-505);
\* "C": spawn-based executor behind skipDependencyInstall (test-executor.js).
Executors == {"A", "B", "C"}

----------------------------------------------------------------------------
(* Initial state: the action process has started, nothing has run yet *)

InitRun ==
  /\ pc = "index"
  /\ err = "none"
  /\ effects = {}
  /\ trouble = {}
  /\ runOutcome = "none"
  /\ resultSuccess = TRUE
  /\ failed = FALSE
  /\ failedMsg = "none"
  /\ outputs = FALSE
  /\ testResults = <<>>
  /\ comment = NoComment
  /\ script = NoScript

InitExec ==
  /\ tempFile = FALSE
  /\ child = NoChild
  /\ settled = "NONE"
  /\ outcome = NoOutcome
  /\ timer = "unset"
  /\ kills = 0
  /\ stdoutBuf = <<>>
  /\ stderrBuf = <<>>
  /\ emitted = [out |-> <<>>, err |-> <<>>]
  /\ hostLog = [info |-> <<>>, error |-> <<>>]
  /\ report = NoReport

InitFn ==
  /\ arg = <<>>
  /\ res = <<>>

\* No base URL, the default wait, no preview URL found, no poll made.
InitPreviewIdle ==
  /\ baseUrl = ""
  /\ waitForPreview = DefaultWaitForPreview
  /\ previewUrls = <<>>
  /\ polls = 0
  /\ elapsed = 0
  /\ urls = <<>>
  /\ steps = <<>>

Init ==
  /\ gen \in Generators
  /\ executor \in IF gen = "service" THEN Executors ELSE {"none"}
  /\ isPR \in BOOLEAN
  /\ hasInputs \in BOOLEAN
  /\ commentOnPR \in BOOLEAN
  /\ moduleResolvable \in IF gen = "service" THEN BOOLEAN ELSE {FALSE}
  /\ skipDependencyInstall \in IF executor = "C" THEN BOOLEAN ELSE {FALSE}
  /\ InitRun
  /\ InitExec
  /\ InitPreviewIdle
  /\ InitFn

----------------------------------------------------------------------------
(* Action entry point: run() in src/index.js *)

\* Inputs are read (a missing required input throws into the catch block),
\* the pull-request event is checked, the generator is constructed and its
\* run() is started.
IndexRunNoPRCheck ==
  /\ pc = "index"
  /\ IF ~hasInputs
       THEN /\ failed' = TRUE
            /\ failedMsg' = "input"
            /\ pc' = "done"
       ELSE /\ pc' = "fetch"
            /\ UNCHANGED <<failed, failedMsg>>
  /\ UNCHANGED <<cfgVars, previewVars, genVars, comment, err, effects, trouble, runOutcome, resultSuccess,
                 outputs, testResults, script, execVars, fnVars>>

IndexRun ==
  /\ pc = "index"
  /\ IF ~hasInputs
       THEN /\ failed' = TRUE
            /\ failedMsg' = "input"
            /\ pc' = "done"
       ELSE IF ~isPR
         THEN /\ failed' = TRUE
              /\ failedMsg' = "not_pr"
              /\ pc' = "done"
         ELSE /\ pc' = "fetch"
              /\ UNCHANGED <<failed, failedMsg>>
  /\ UNCHANGED <<cfgVars, previewVars, genVars, comment, err, effects, trouble, runOutcome, resultSuccess,
                 outputs, testResults, script, execVars, fnVars>>

\* generator.run() has returned or thrown: set the outputs, or setFailed.
IndexFinishGating ==
  /\ pc = "ret"
  /\ pc' = "done"
  /\ IF runOutcome = "returned"
       THEN /\ outputs' = TRUE
            /\ failed' = ~resultSuccess
            /\ failedMsg' = IF resultSuccess THEN failedMsg ELSE "tests"
       ELSE /\ failed' = TRUE
            /\ failedMsg' = err
            /\ UNCHANGED outputs
  /\ UNCHANGED <<cfgVars, previewVars, genVars, comment, err, effects, trouble, runOutcome, resultSuccess,
                 testResults, script, execVars, fnVars>>

IndexFinish ==
  /\ pc = "ret"
  /\ pc' = "done"
  /\ IF runOutcome = "returned"
       THEN /\ outputs' = TRUE
            /\ UNCHANGED <<failed, failedMsg>>
       ELSE /\ failed' = TRUE
            /\ failedMsg' = err
            /\ UNCHANGED outputs
  /\ UNCHANGED <<cfgVars, previewVars, genVars, comment, err, effects, trouble, runOutcome, resultSuccess,
                 testResults, script, execVars, fnVars>>

----------------------------------------------------------------------------
(* PRTestGenerator.run(): context fetch, applicability check, generation *)

\* Whether a comment helper lets a failed createComment propagate.
commentSkippedTestsThrows(ok) == FALSE

commentErrorPropagates(ok) == ~ok

commentErrorThrows(ok) == FALSE

commentResultsThrows(ok) == ~ok

\* GitHubService.commentGenerated: a failure to post is logged only.
commentGeneratedThrows(ok) == FALSE

GetPRContext ==
  /\ pc = "fetch"
  /\ effects' = effects \cup {"getPRContext"}
  /\ \E ok \in BOOLEAN :
       IF ok THEN /\ pc' = "check"
                  /\ UNCHANGED err
             ELSE /\ pc' = "catch"
                  /\ err' = "github"
  /\ trouble' = trouble \cup (IF pc' = "catch" THEN {"github"} ELSE {})
  /\ UNCHANGED <<cfgVars, previewVars, genVars, comment, runOutcome, resultSuccess, failed,
                 failedMsg, outputs, testResults, script, execVars, fnVars>>

LLMAnswers == {"YES", "NO", "OTHER", "NOT_OK", "THROW"}

requiresUITestingTrustsNo(answer, obvious, fallback) ==
  IF answer = "YES" THEN TRUE
  ELSE IF answer = "NO" THEN FALSE
  ELSE fallback

requiresUITesting(answer, obvious, fallback) ==
  IF answer = "YES" THEN TRUE
  ELSE IF answer = "NO" THEN obvious
  ELSE fallback

\* run(): the applicability check and, when it says no, the skipped result.
RequiresUITesting ==
  /\ pc = "check"
  /\ \E answer \in LLMAnswers, obvious \in BOOLEAN, fallback \in BOOLEAN,
        ok \in BOOLEAN :
       IF requiresUITesting(answer, obvious, fallback)
         THEN /\ pc' = IF gen = "service" THEN "sitemap" ELSE "generate"
              /\ effects' = effects \cup {"llm"}
              /\ UNCHANGED <<trouble, runOutcome, resultSuccess, err>>
         ELSE /\ effects' = effects \cup {"llm"} \cup
                   (IF commentOnPR THEN {"comment_skipped"} ELSE {})
              /\ trouble' = trouble \cup
                   (IF commentOnPR /\ ~ok THEN {"comment_skipped"} ELSE {})
              /\ IF commentOnPR /\ commentSkippedTestsThrows(ok)
                   THEN /\ pc' = "catch"
                        /\ err' = "comment"
                        /\ UNCHANGED <<runOutcome, resultSuccess>>
                   ELSE /\ pc' = "ret"
                        /\ runOutcome' = "returned"
                        /\ resultSuccess' = TRUE
                        /\ UNCHANGED err
  /\ UNCHANGED <<cfgVars, previewVars, genVars, comment, failed, failedMsg, outputs, testResults, script,
                 execVars, fnVars>>

\* What the sitemap relevance check can do: no sitemap.json (or an unreadable
\* one), an LLM verdict, or an LLM error.
SitemapOutcomes == {"absent", "relevant", "irrelevant", "throws"}

SitemapCheck ==
  /\ pc = "sitemap"
  /\ gen = "service"
  /\ \E o \in SitemapOutcomes, ok \in BOOLEAN :
       /\ effects' = effects
            \cup (IF o = "absent" THEN {} ELSE {"llm"})
            \cup (IF o = "irrelevant" /\ commentOnPR
                    THEN {"comment_skipped"} ELSE {})
       /\ trouble' = trouble
            \cup (IF o = "irrelevant" /\ commentOnPR /\ ~ok
                    THEN {"comment_skipped"} ELSE {})
            \cup (IF o = "throws" THEN {"llm"} ELSE {})
       /\ IF o = "throws"
            THEN /\ pc' = "catch"
                 /\ err' = "llm"
                 /\ UNCHANGED <<runOutcome, resultSuccess>>
            ELSE IF o = "irrelevant"
              THEN /\ pc' = "ret"
                   /\ runOutcome' = "returned"
                   /\ resultSuccess' = TRUE
                   /\ UNCHANGED err
              ELSE /\ pc' = "generate"
                   /\ UNCHANGED <<err, runOutcome, resultSuccess>>
  /\ UNCHANGED <<cfgVars, previewVars, genVars, comment, failed, failedMsg, outputs, testResults, script,
                 execVars, fnVars>>

\* generateTests: the LLM conversation; its result is the generated script.
GenerateTests ==
  /\ pc = "generate"
  /\ effects' = effects \cup {"llm"}
  /\ \/ /\ pc' = "catch"
        /\ err' = "llm"
        /\ trouble' = trouble \cup {"llm"}
        /\ UNCHANGED script
     \/ /\ script' \in Scripts
        /\ pc' = IF gen = "legacy" THEN "write" ELSE "exec"
        /\ UNCHANGED <<err, trouble>>
  /\ UNCHANGED <<cfgVars, previewVars, genVars, comment, runOutcome, resultSuccess, failed,
                 failedMsg, outputs, testResults, execVars, fnVars>>

\* The catch block of run(): best-effort error comment, then rethrow.
Catch ==
  /\ pc = "catch"
  /\ pc' = "ret"
  /\ runOutcome' = "threw"
  /\ IF commentOnPR
       THEN \E ok \in BOOLEAN :
              /\ effects' = effects \cup {"comment_error"}
              /\ trouble' = trouble \cup
                   (IF ok THEN {} ELSE {"comment_error"})
              /\ err' = IF commentErrorThrows(ok) THEN "comment" ELSE err
       ELSE UNCHANGED <<effects, trouble, err>>
  /\ UNCHANGED <<cfgVars, previewVars, genVars, comment, resultSuccess, failed, failedMsg, outputs,
                 testResults, script, execVars, fnVars>>

----------------------------------------------------------------------------
(* Legacy PRTestGenerator: writeTestFile, executeTests, commentResults *)

WriteTestFile ==
  /\ pc = "write"
  /\ gen = "legacy"
  /\ \E ok \in BOOLEAN :
       IF ok THEN /\ pc' = "exec"
                  /\ UNCHANGED err
             ELSE /\ pc' = "catch"
                  /\ err' = "fs"
  /\ UNCHANGED <<cfgVars, previewVars, genVars, comment, effects, trouble, runOutcome, resultSuccess, failed,
                 failedMsg, outputs, testResults, script, execVars, fnVars>>

\* ensureMagnitudeInstalled: already installed, installed now, or failed.
InstallOutcomes == {"present", "installed", "failed"}

\* error.message of a failed execAsync, without the command line and the
\* stderr text that follows it.
TxtCommandFailed == <<"C","o","m","m","a","n","d"," ","f","a","i","l","e","d",":"," ">>

\* The value executeTests returns. inst is the outcome of
\* ensureMagnitudeInstalled, s the script that execAsync runs under the
\* timeout: a script that does not end by itself is killed, and the error of
\* a killed child has a null code. The install commands and the scripts
\* here end with code 0 or 1, so browserErrors is set for a killed child only.
executeTests(inst, s) ==
  IF inst = "failed"
    THEN [success |-> determineTestSuccess(<<>>, <<>>, 1),
          stdout |-> <<>>, stderr |-> <<>>, browserErrors |-> <<>>]
    ELSE IF s.mode = "exit" /\ s.exitCode = 0
      THEN [success |-> TRUE,
            stdout |-> Concat(s.out), stderr |-> Concat(s.err),
            browserErrors |-> <<>>]
      ELSE LET testSuccess ==
                 determineTestSuccess(Concat(s.out), Concat(s.err),
                                      IF s.mode = "exit" THEN s.exitCode ELSE 1)
           IN [success |-> testSuccess,
               stdout |-> Concat(s.out), stderr |-> Concat(s.err),
               browserErrors |->
                 IF ~testSuccess /\ s.mode # "exit"
                   THEN <<TxtCommandFailed \o Concat(s.err)>>
                   ELSE <<>>]

\* execAsync waits for the child to exit, so a script that ignores the
\* termination signal keeps executeTests from returning.
ExecuteTests ==
  /\ pc = "exec"
  /\ gen = "legacy"
  /\ \E inst \in InstallOutcomes :
       /\ inst # "failed" => script.mode # "ignore"
       /\ testResults' = executeTests(inst, script)
       /\ effects' = effects
            \cup (IF inst = "present" THEN {} ELSE {"install"})
            \cup (IF inst = "failed" THEN {} ELSE {"exec"})
       /\ trouble' = trouble
            \cup (IF inst = "failed" THEN {"install"} ELSE {})
            \cup (IF inst # "failed" /\ script.mode = "hang"
                    THEN {"timeout"} ELSE {})
            \cup (IF /\ inst # "failed"
                     /\ \/ script.mode = "crash"
                        \/ script.mode = "exit" /\ script.exitCode # 0
                    THEN {"exit"} ELSE {})
  /\ pc' = "report"
  /\ UNCHANGED <<cfgVars, previewVars, genVars, comment, err, runOutcome, resultSuccess, failed, failedMsg,
                 outputs, script, execVars, fnVars>>

\* run(): commentResults when commenting is on, then the return value.
CommentResults ==
  /\ pc = "report"
  /\ gen = "legacy"
  /\ \E ok \in BOOLEAN :
       /\ effects' = effects \cup {"report"} \cup
            (IF commentOnPR THEN {"comment_result"} ELSE {})
       /\ trouble' = trouble \cup
            (IF commentOnPR /\ ~ok THEN {"comment_result"} ELSE {})
       /\ comment' = IF commentOnPR /\ ok
                       THEN formatResultsComment(testResults)
                       ELSE comment
       /\ IF commentOnPR /\ commentResultsThrows(ok)
            THEN /\ pc' = "catch"
                 /\ err' = "comment"
                 /\ UNCHANGED <<runOutcome, resultSuccess>>
            ELSE /\ pc' = "ret"
                 /\ runOutcome' = "returned"
                 /\ resultSuccess' = testResults.success
                 /\ UNCHANGED err
  /\ UNCHANGED <<cfgVars, previewVars, genVars, failed, failedMsg, outputs, testResults, script,
                 execVars, fnVars>>

----------------------------------------------------------------------------
(* TestExecutor.executeTestsAndGenerateReport *)

\* The status parseTestResults (executor A) gives every case after a run.
statusFromOutput(stdout, stderr) ==
  IF Len(stdout) > 50 \/ Len(stderr) > 0
    THEN IF \/ Len(stderr) > 0
            \/ includesAny(stdout, {<<"F","A","I","L">>,
                                    <<"E","R","R","O","R">>})
           THEN "FAILED"
           ELSE IF includesAny(stdout, {<<"P","A","S","S">>,
                                        <<"S","U","C","C","E","S","S">>,
                                        <<"c","o","m","p","l","e","t","e","d">>})
             THEN "PASSED"
             ELSE "UNKNOWN"
    ELSE "READY_TO_RUN"

\* The mutation: the failure report keeps the stdout captured so far.
SkippedReportKeepsOutput(n, text) ==
  [kind |-> "returned", success |-> TRUE, executionSkipped |-> TRUE,
   hasTestCases |-> executor = "A",
   testCases |-> IF executor = "A" THEN [i \in 1..n |-> "READY_TO_RUN"]
                                   ELSE <<>>,
   testResults |-> <<>>,
   output |-> stdoutBuf,
   errors |-> text]

\* The report returned when execution did not happen or did not succeed.
\* Executor A carries the parsed cases, all READY_TO_RUN; B and C carry no
\* testCases field. errors is the child's output that the errors text
\* holds: the text is "Execution failed ...: " and the error's message.
SkippedReport(n, text) ==
  [kind |-> "returned", success |-> TRUE, executionSkipped |-> TRUE,
   hasTestCases |-> executor = "A",
   testCases |-> IF executor = "A" THEN [i \in 1..n |-> "READY_TO_RUN"]
                                   ELSE <<>>,
   testResults |-> <<>>,
   output |-> <<>>,
   errors |-> text]

\* The report of a run with exit code 0. In executor C testResults is what
\* the LLM extracts from a non-empty stdout: n results.
ExecutedReport(n, stdout, stderr) ==
  [kind |-> "returned", success |-> TRUE, executionSkipped |-> FALSE,
   hasTestCases |-> executor = "A",
   testCases |-> IF executor = "A"
                   THEN [i \in 1..n |-> statusFromOutput(stdout, stderr)]
                   ELSE <<>>,
   testResults |-> IF executor = "C" /\ stdout # <<>>
                     THEN [i \in 1..n |-> "parsed"]
                     ELSE <<>>,
   output |-> stdout,
   errors |-> stderr]

\* The message of the error execAsync rejects with is "Command failed: ",
\* the command and the stderr of the child.
execAsyncMessageText(stderr) == stderr

ThrownReport == [kind |-> "threw"]

needsInstall ==
  IF executor = "C" THEN ~skipDependencyInstall ELSE ~moduleResolvable

\* What the catch block of the install step does: executors A and C return
\* the skipped report; executor B touches the undeclared testCases and so
\* throws a ReferenceError out of executeTestsAndGenerateReport.
installFailureThrows == executor = "B"

\* Dependency step of executeTestsAndGenerateReport.
InstallDependencies ==
  /\ pc = "exec"
  /\ gen = "service"
  /\ IF needsInstall
       THEN \E ok \in BOOLEAN, n \in 1..MaxCases :
              /\ effects' = effects \cup {"install"}
              /\ IF ok
                   THEN /\ pc' = "write_temp"
                        /\ UNCHANGED <<trouble, report, err>>
                   ELSE /\ trouble' = trouble \cup {"install"}
                        /\ IF installFailureThrows
                             THEN /\ report' = ThrownReport
                                  /\ err' = "report"
                                  /\ pc' = "catch"
                             ELSE /\ report' = SkippedReport(n, <<>>)
                                  /\ pc' = "print"
                                  /\ UNCHANGED err
       ELSE /\ pc' = "write_temp"
            /\ UNCHANGED <<effects, trouble, report, err>>
  /\ UNCHANGED <<cfgVars, previewVars, genVars, comment, runOutcome, resultSuccess, failed, failedMsg,
                 outputs, testResults, script, tempFile, child, settled, outcome,
                 timer, kills, stdoutBuf, stderrBuf, emitted, hostLog, fnVars>>

\* fs.writeFile of temp-test.js and, in executors B and C, the spawn of the
\* child with its listeners and the timeout timer.
WriteTempAndSpawn ==
  /\ pc = "write_temp"
  /\ \E wrote \in BOOLEAN, spawned \in BOOLEAN, n \in 1..MaxCases :
       IF ~wrote
         THEN /\ trouble' = trouble \cup {"write"}
              /\ report' = SkippedReport(n, <<>>)
              /\ pc' = "print"
              /\ UNCHANGED <<tempFile, child, settled, outcome, timer, effects>>
         ELSE /\ tempFile' = TRUE
              /\ UNCHANGED <<trouble, report>>
              /\ IF executor = "A"
                   THEN /\ pc' = "execAsync"
                        /\ UNCHANGED <<child, settled, outcome, timer, effects>>
                   ELSE /\ pc' = "await"
                        /\ effects' = effects \cup {"exec"}
                        /\ child' = [st |-> IF spawned THEN "running"
                                                       ELSE "nostart",
                                     code |-> "none", signal |-> "none"]
                        /\ settled' = "PENDING"
                        /\ outcome' = NoOutcome
                        /\ timer' = "armed"
  /\ UNCHANGED <<cfgVars, previewVars, genVars, comment, err, runOutcome, resultSuccess, failed, failedMsg,
                 outputs, testResults, script, kills, stdoutBuf, stderrBuf, emitted, hostLog,
                 fnVars>>

\* Executor A: execAsync under the timeout, parseTestResults, unlink.
ExecAsync ==
  /\ pc = "execAsync"
  /\ script.mode # "ignore"
  /\ effects' = effects \cup {"exec"}
  /\ pc' = "print"
  /\ \E unlinked \in BOOLEAN, n \in 1..MaxCases :
       IF script.mode = "exit" /\ script.exitCode = 0
         THEN /\ stdoutBuf' = Concat(script.out)
              /\ stderrBuf' = Concat(script.err)
              /\ IF unlinked
                   THEN /\ tempFile' = FALSE
                        /\ report' = ExecutedReport(n, Concat(script.out),
                                                    Concat(script.err))
                        /\ UNCHANGED trouble
                   ELSE /\ trouble' = trouble \cup {"unlink"}
                        /\ report' = SkippedReport(n, <<>>)
                        /\ UNCHANGED tempFile
         ELSE /\ trouble' = trouble \cup
                   {IF script.mode = "hang" THEN "timeout" ELSE "exit"}
              /\ report' = SkippedReport(
                              n, execAsyncMessageText(Concat(script.err)))
              /\ UNCHANGED <<tempFile, stdoutBuf, stderrBuf>>
  /\ UNCHANGED <<cfgVars, previewVars, genVars, comment, err, runOutcome, resultSuccess, failed, failedMsg,
                 outputs, testResults, script, child, settled, outcome, timer, kills,
                 emitted, hostLog, fnVars>>

----------------------------------------------------------------------------
(* TestExecutor.executeWithRealTimeLogging: the child and its events.      *)
(* A promise settles once: resolve and reject on a settled promise do      *)
(* nothing. The continuation of the awaiting caller is a microtask, so no  *)
(* event handler runs between the settling handler and ExecResume.         *)

\* The mutation: a later resolve or reject replaces the earlier one.
SettleOverwrites(cur, how) == how

Settle(cur, how) == IF cur = "PENDING" THEN how ELSE cur

\* What the promise holds after resolve(value) or reject(error).
SettleWith(cur, held, value) == IF cur = "PENDING" THEN value ELSE held

\* resolve({ stdout, stderr })
Resolved(stdout, stderr) ==
  [kind |-> "resolved", stdout |-> stdout, stderr |-> stderr]

\* The error of a close with a code other than 0.
CommandFailed(c, stdout, stderr) ==
  [kind |-> "rejected", error |-> "Command failed", code |-> c.code,
   signal |-> c.signal, stdout |-> stdout, stderr |-> stderr]

\* The error of the timeout callback, and the error of the error event.
CommandTimedOut == [kind |-> "rejected", error |-> "Command timed out"]
SpawnFailed == [kind |-> "rejected", error |-> "spawn"]

Resumes(cur) == cur = "PENDING"

evVars == <<cfgVars, previewVars, genVars, comment, err, effects, runOutcome, resultSuccess, failed,
            failedMsg, outputs, testResults, report, tempFile, fnVars>>

\* output.split("\n") and the lines for which line.trim() is not empty
nonBlankLines(output) ==
  LET nonBlank(line) == trim(line) # <<>>
  IN SelectSeq(split(output, "\n"), nonBlank)

\* The mutation: the stdout handler only logs; it does not accumulate.
StdoutDataLogOnly ==
  /\ pc # "resume"
  /\ child.st \in {"running", "signalled"}
  /\ script.out # <<>>
  /\ emitted' = [emitted EXCEPT !.out = Append(@, Head(script.out))]
  /\ hostLog' = [hostLog EXCEPT
                   !.info = @ \o nonBlankLines(Head(script.out))]
  /\ script' = [script EXCEPT !.out = Tail(@)]
  /\ UNCHANGED <<evVars, pc, trouble, child, settled, outcome, timer, kills,
                 stdoutBuf, stderrBuf>>

\* child.stdout.on("data"): the child writes a chunk and the handler appends
\* it and logs its lines.
StdoutData ==
  /\ pc # "resume"
  /\ child.st \in {"running", "signalled"}
  /\ script.out # <<>>
  /\ emitted' = [emitted EXCEPT !.out = Append(@, Head(script.out))]
  /\ stdoutBuf' = stdoutBuf \o Head(script.out)
  /\ hostLog' = [hostLog EXCEPT
                   !.info = @ \o nonBlankLines(Head(script.out))]
  /\ script' = [script EXCEPT !.out = Tail(@)]
  /\ UNCHANGED <<evVars, pc, trouble, child, settled, outcome, timer, kills,
                 stderrBuf>>

\* child.stderr.on("data")
StderrData ==
  /\ pc # "resume"
  /\ child.st \in {"running", "signalled"}
  /\ script.err # <<>>
  /\ emitted' = [emitted EXCEPT !.err = Append(@, Head(script.err))]
  /\ stderrBuf' = stderrBuf \o Head(script.err)
  /\ hostLog' = [hostLog EXCEPT
                   !.error = @ \o nonBlankLines(Head(script.err))]
  /\ script' = [script EXCEPT !.err = Tail(@)]
  /\ UNCHANGED <<evVars, pc, trouble, child, settled, outcome, timer, kills,
                 stdoutBuf>>

\* The script ends by itself, after it has written all its output: with
\* its exit code, or through a signal and then with the code null.
ChildExit ==
  /\ pc # "resume"
  /\ child.st = "running"
  /\ script.mode \in {"exit", "crash"}
  /\ script.out = <<>>
  /\ script.err = <<>>
  /\ child' = IF script.mode = "crash"
                THEN [st |-> "exited", code |-> "null", signal |-> "SIGSEGV"]
                ELSE [st |-> "exited",
                      code |-> IF script.exitCode = 0 THEN "0" ELSE "1",
                      signal |-> "none"]
  /\ UNCHANGED <<evVars, pc, trouble, script, settled, outcome, timer, kills,
                 stdoutBuf, stderrBuf, emitted, hostLog>>

\* SIGTERM ends a child that does not ignore it: exit code null.
ChildTerminated ==
  /\ pc # "resume"
  /\ child.st = "signalled"
  /\ script.mode # "ignore"
  /\ child' = [st |-> "exited", code |-> "null", signal |-> "SIGTERM"]
  /\ UNCHANGED <<evVars, pc, trouble, script, settled, outcome, timer, kills,
                 stdoutBuf, stderrBuf, emitted, hostLog>>

\* The setTimeout callback: kill("SIGTERM") and reject. The signal reaches
\* only a child that has not exited.
TimeoutNoKill ==
  /\ pc # "resume"
  /\ timer = "armed"
  /\ child.st \in {"running", "exited", "closed"}
  /\ timer' = "fired"
  /\ settled' = Settle(settled, "TIMED_OUT")
  /\ outcome' = SettleWith(settled, outcome, CommandTimedOut)
  /\ pc' = IF Resumes(settled) THEN "resume" ELSE pc
  /\ trouble' = trouble \cup {"timeout"}
  /\ UNCHANGED <<evVars, script, stdoutBuf, stderrBuf, emitted, hostLog, kills, child>>

Timeout ==
  /\ pc # "resume"
  /\ timer = "armed"
  /\ child.st \in {"running", "exited", "closed"}
  /\ timer' = "fired"
  /\ IF child.st = "running"
       THEN /\ kills' = kills + 1
            /\ child' = [child EXCEPT !.st = "signalled"]
       ELSE UNCHANGED <<kills, child>>
  /\ settled' = Settle(settled, "TIMED_OUT")
  /\ outcome' = SettleWith(settled, outcome, CommandTimedOut)
  /\ pc' = IF Resumes(settled) THEN "resume" ELSE pc
  /\ trouble' = trouble \cup {"timeout"}
  /\ UNCHANGED <<evVars, script, stdoutBuf, stderrBuf, emitted, hostLog>>

\* The mutation: the close handler leaves the timer running.
CloseNoClearTimeout ==
  /\ pc # "resume"
  /\ child.st = "exited"
  /\ child' = [child EXCEPT !.st = "closed"]
  /\ settled' = Settle(settled, IF child.code = "0" THEN "COMPLETED"
                                                    ELSE "FAILED")
  /\ outcome' = SettleWith(settled, outcome,
                           IF child.code = "0"
                             THEN Resolved(stdoutBuf, stderrBuf)
                             ELSE CommandFailed(child, stdoutBuf, stderrBuf))
  /\ pc' = IF Resumes(settled) THEN "resume" ELSE pc
  /\ trouble' = trouble \cup (IF child.code \in {"1", "null"}
                                THEN {"exit"} ELSE {})
  /\ UNCHANGED <<evVars, script, kills, stdoutBuf, stderrBuf, emitted, hostLog, timer>>

\* The mutation: a close without an exit code counts as a clean exit.
CloseNullIsSuccess ==
  /\ pc # "resume"
  /\ child.st = "exited"
  /\ child' = [child EXCEPT !.st = "closed"]
  /\ timer' = IF timer = "armed" THEN "cleared" ELSE timer
  /\ settled' = Settle(settled, IF child.code \in {"0", "null"}
                                  THEN "COMPLETED" ELSE "FAILED")
  /\ outcome' = SettleWith(settled, outcome,
                           IF child.code \in {"0", "null"}
                             THEN Resolved(stdoutBuf, stderrBuf)
                             ELSE CommandFailed(child, stdoutBuf, stderrBuf))
  /\ pc' = IF Resumes(settled) THEN "resume" ELSE pc
  /\ trouble' = trouble \cup (IF child.code \in {"1", "null"}
                                THEN {"exit"} ELSE {})
  /\ UNCHANGED <<evVars, script, kills, stdoutBuf, stderrBuf, emitted, hostLog>>

\* child.on("close"): clearTimeout, then resolve on code 0, else reject.
Close ==
  /\ pc # "resume"
  /\ child.st = "exited"
  /\ child' = [child EXCEPT !.st = "closed"]
  /\ timer' = IF timer = "armed" THEN "cleared" ELSE timer
  /\ settled' = Settle(settled, IF child.code = "0" THEN "COMPLETED"
                                                    ELSE "FAILED")
  /\ outcome' = SettleWith(settled, outcome,
                           IF child.code = "0"
                             THEN Resolved(stdoutBuf, stderrBuf)
                             ELSE CommandFailed(child, stdoutBuf, stderrBuf))
  /\ pc' = IF Resumes(settled) THEN "resume" ELSE pc
  /\ trouble' = trouble \cup (IF child.code \in {"1", "null"}
                                THEN {"exit"} ELSE {})
  /\ UNCHANGED <<evVars, script, kills, stdoutBuf, stderrBuf, emitted, hostLog>>

\* child.on("error") for a failed spawn: clearTimeout and reject. The close
\* event follows, with the negative errno as its code.
SpawnError ==
  /\ pc # "resume"
  /\ child.st = "nostart"
  /\ child' = [st |-> "exited", code |-> "errno", signal |-> "none"]
  /\ timer' = IF timer = "armed" THEN "cleared" ELSE timer
  /\ settled' = Settle(settled, "FAILED")
  /\ outcome' = SettleWith(settled, outcome, SpawnFailed)
  /\ pc' = IF Resumes(settled) THEN "resume" ELSE pc
  /\ trouble' = trouble \cup {"spawn"}
  /\ UNCHANGED <<evVars, script, kills, stdoutBuf, stderrBuf, emitted, hostLog>>

\* Executors B and C after the await: on success unlink the file (and, in
\* C, ask the LLM to parse a non-empty stdout) and return the executed
\* report; on a rejection, or when unlink fails, return the skipped report.
ExecResume ==
  /\ pc = "resume"
  /\ pc' = "print"
  /\ \E unlinked \in BOOLEAN, n \in 1..MaxCases :
       IF settled = "COMPLETED" /\ unlinked
         THEN /\ tempFile' = FALSE
              /\ report' = ExecutedReport(n, stdoutBuf, stderrBuf)
              /\ effects' = effects \cup
                   (IF executor = "C" /\ stdoutBuf # <<>> THEN {"llm"} ELSE {})
              /\ UNCHANGED trouble
         ELSE /\ report' = SkippedReport(n, <<>>)
              /\ trouble' = trouble \cup
                   (IF settled = "COMPLETED" THEN {"unlink"} ELSE {})
              /\ UNCHANGED <<tempFile, effects>>
  /\ UNCHANGED <<cfgVars, previewVars, genVars, comment, err, runOutcome, resultSuccess, failed, failedMsg,
                 outputs, testResults, script, child, settled, outcome, timer, kills,
                 stdoutBuf, stderrBuf, emitted, hostLog, fnVars>>

----------------------------------------------------------------------------
(* Service PRTestGenerator.run() after the executor has returned *)

\* TestReporter.printTestReport reads testReport.testCases.length: a report
\* without the field makes it throw a TypeError into the catch block.
printTestReportThrows(r) == ~r.hasTestCases

PrintTestReport ==
  /\ pc = "print"
  /\ IF printTestReportThrows(report)
       THEN /\ pc' = "catch"
            /\ err' = "TypeError"
       ELSE /\ pc' = "comment"
            /\ UNCHANGED err
  /\ UNCHANGED <<cfgVars, previewVars, genVars, comment, effects, trouble, runOutcome, resultSuccess, failed,
                 failedMsg, outputs, testResults, script, execVars, fnVars>>

\* run(): commentGenerated when commenting is on, then the return value.
CommentGenerated ==
  /\ pc = "comment"
  /\ \E ok \in BOOLEAN :
       /\ effects' = effects \cup {"report"} \cup
            (IF commentOnPR THEN {"comment_result"} ELSE {})
       /\ trouble' = trouble \cup
            (IF commentOnPR /\ ~ok THEN {"comment_result"} ELSE {})
       /\ IF commentOnPR /\ commentGeneratedThrows(ok)
            THEN /\ pc' = "catch"
                 /\ err' = "comment"
                 /\ UNCHANGED <<runOutcome, resultSuccess>>
            ELSE /\ pc' = "ret"
                 /\ runOutcome' = "returned"
                 /\ resultSuccess' = TRUE
                 /\ UNCHANGED err
  /\ UNCHANGED <<cfgVars, previewVars, genVars, comment, failed, failedMsg, outputs, testResults, script,
                 execVars, fnVars>>

----------------------------------------------------------------------------
(* The action as a whole *)

Next ==
  \/ IndexRun
  \/ GetPRContext
  \/ RequiresUITesting
  \/ SitemapCheck
  \/ GenerateTests
  \/ WriteTestFile
  \/ ExecuteTests
  \/ CommentResults
  \/ InstallDependencies
  \/ WriteTempAndSpawn
  \/ ExecAsync
  \/ StdoutData
  \/ StderrData
  \/ ChildExit
  \/ ChildTerminated
  \/ Timeout
  \/ Close
  \/ SpawnError
  \/ ExecResume
  \/ PrintTestReport
  \/ CommentGenerated
  \/ Catch
  \/ IndexFinish

Spec == Init /\ [][Next]_vars

----------------------------------------------------------------------------
(* determineTestSuccess as a function of its inputs *)

InitClassify ==
  /\ gen = "legacy"
  /\ executor = "none"
  /\ isPR = TRUE
  /\ hasInputs = TRUE
  /\ commentOnPR = TRUE
  /\ moduleResolvable = FALSE
  /\ skipDependencyInstall = FALSE
  /\ InitRun
  /\ InitExec
  /\ InitPreviewIdle
  /\ arg \in [stdout : Texts, stderr : {<<>>, TxtOk, TxtCompleted},
              exitCode : ExitCodes]
  /\ res = <<>>

Classify ==
  /\ arg # <<>>
  /\ res = <<>>
  /\ res' = <<determineTestSuccess(arg.stdout, arg.stderr, arg.exitCode)>>
  /\ UNCHANGED <<cfgVars, previewVars, genVars, runVars, execVars, arg>>

NextClassify == Classify

SpecClassify == InitClassify /\ [][NextClassify]_vars

----------------------------------------------------------------------------
(* parseTestCasesFromCode as a function of the script *)

MaxLines == 2

\* A single-line comment of the shape `// Test N: <desc>`.
TestNComment(n, desc) == <<"/","/"," ","T","e","s","t"," ">> \o <<n>> \o <<":"," ">> \o desc

\* A single-line comment of the shape `// N. <desc>`.
NumberedComment(n, desc) == <<"/","/"," ">> \o <<n>> \o <<"."," ">> \o desc

DescLogin == <<"L","o","g","i","n"," ","w","o","r","k","s">>
DescCart == <<"O","p","e","n","s"," ","t","h","e"," ","c","a","r","t"," ">>
DescGo == <<"G","o">>
DescCheckout == <<"C","h","e","c","k","o","u","t"," ","f","l","o","w">>
DescRemote == <<"R","e","m","o","t","e"," ","p","a","g","e">>

Descs == {DescLogin, DescCart, DescGo, DescCheckout, DescRemote}

TestLines == {TestNComment("1", DescLogin), TestNComment("2", DescCart),
              TestNComment("4", DescGo)}

NumberedLine == NumberedComment("3", DescCheckout)

TestingLine == <<"/","/"," ","T","e","s","t","i","n","g"," ","h","e","l","p","e","r",
      "s">>

UrlHead == <<"g","e","t","(","'","h","t","t","p",":","/","/","t","e","s","t">>
UrlTail == <<".","i","o","'",")",";"," ">>
UrlLine == UrlHead \o UrlTail \o TestNComment("5", DescRemote)

NavigateLine == <<"a","g","e","n","t",".","n","a","v","i","g","a","t","e","(","u","r",
      "l",")",";">>
ActNavigateLine == <<"a","w","a","i","t"," ","a","g","e","n","t",".","a","c","t","(","'",
      "N","a","v","i","g","a","t","e"," ","h","o","m","e","'",")",";">>
ActClickLine == <<"a","w","a","i","t"," ","a","g","e","n","t",".","a","c","t","(","\"",
      "c","l","i","c","k"," ","t","h","e"," ","s","a","v","e"," ","b","u",
      "t","t","o","n","\"",")",";">>

BlockText == <<"C","h","e","c","k","s"," ","t","h","a","t"," ","t","h","e"," ","l",
      "o","g","i","n"," ","p","a","g","e"," ","r","e","n","d","e","r","s">>
BlockLine == <<"/","*"," ">> \o BlockText \o <<" ","*","/">>
TodoBlockLine == <<"/","*"," ","T","O","D","O",":"," ","a","d","d"," ","s","o","m","e",
      " ","m","o","r","e"," ","t","e","s","t"," ","c","a","s","e","s"," ",
      "*","/">>
ShortBlockLine == <<"/","*"," ","s","h","o","r","t"," ","*","/">>
LongBlockText ==
  <<"W","a","l","k","s"," ","t","h","r","o","u","g","h"," ","t","h","e",
      " ","w","h","o","l","e"," ","c","h","e","c","k","o","u","t"," ","f",
      "l","o","w",","," ","f","r","o","m"," ","t","h","e"," ","c","a","r",
      "t"," ","p","a","g","e"," ","t","o"," ","t","h","e"," ","p","a","y",
      "m","e","n","t"," ","f","o","r","m",","," ","a","n","d"," ","c","h",
      "e","c","k","s"," ","e","v","e","r","y"," ","t","o","t","a","l"," ",
      "s","h","o","w","n">>
LongBlockLine == <<"/","*"," ">> \o LongBlockText \o <<" ","*","/">>
BlockOpenLine == <<"/","*"," ","V","e","r","i","f","i","e","s"," ","t","h","e"," ","h",
      "e","a","d","e","r">>
BlockCloseLine == <<"a","n","d"," ","t","h","e"," ","f","o","o","t","e","r"," ","l","i",
      "n","k","s"," ","*","/">>

PlainLine == <<"c","o","n","s","t"," ","x"," ","="," ","1",";">>

ScriptLines ==
  TestLines \cup
  {NumberedLine, TestingLine, UrlLine, NavigateLine, ActNavigateLine,
   ActClickLine, BlockLine, TodoBlockLine, ShortBlockLine, LongBlockLine,
   BlockOpenLine, BlockCloseLine, PlainLine}

LineSeqs == UNION {[1..n -> ScriptLines] : n \in 0..MaxLines}

\* The script whose lines are `lines`: what split("\n") takes apart.
RECURSIVE testCodeOf(_)
testCodeOf(lines) ==
  IF lines = <<>> THEN <<>>
  ELSE IF Len(lines) = 1 THEN lines[1]
  ELSE lines[1] \o <<"\n">> \o testCodeOf(Tail(lines))

InitParse ==
  /\ gen = "service"
  /\ executor = "A"
  /\ isPR = TRUE
  /\ hasInputs = TRUE
  /\ commentOnPR = TRUE
  /\ moduleResolvable = FALSE
  /\ skipDependencyInstall = FALSE
  /\ InitRun
  /\ InitExec
  /\ InitPreviewIdle
  /\ arg \in [lines : LineSeqs]
  /\ res = <<>>

\* const testCases = this.parseTestCasesFromCode(testCode)
ParseTestCases ==
  /\ res = <<>>
  /\ res' = <<parseTestCasesFromCode(testCodeOf(arg.lines))>>
  /\ UNCHANGED <<cfgVars, previewVars, genVars, runVars, execVars, arg>>

NextParse == ParseTestCases

SpecParse == InitParse /\ [][NextParse]_vars

----------------------------------------------------------------------------
(* sanitizeOutput as a function of the text *)

MaxPieces == 2

\* The configured test-user email.
TestUserEmail == <<"q","a","@","e","x","a","m","p","l","e",".","c","o","m">>

TxtKeyUpper == <<"A","N","T","H","R","O","P","I","C","_","A","P","I","_","K","E","Y",
      "=">>
TxtKeyLower == <<"a","n","t","h","r","o","p","i","c","_","a","p","i","_","k","e","y",
      ":"," ">>
TxtSecret == <<"s","3","c","r","e","t">>
TxtSpace == <<" ">>
TxtLogin == <<"T","y","p","e"," ","e","m","a","i","l",":"," ">>

Pieces == {TestUserEmail, TxtApiKey, TxtKeyUpper, TxtKeyLower, TxtSecret,
           TxtSpace, TxtLogin, TxtNl, TxtRedacted}

PieceSeqs == UNION {[1..n -> Pieces] : n \in 0..MaxPieces}

CapturedTexts == {Concat(ps) : ps \in PieceSeqs}

InitSanitize ==
  /\ gen = "legacy"
  /\ executor = "none"
  /\ isPR = TRUE
  /\ hasInputs = TRUE
  /\ commentOnPR = TRUE
  /\ moduleResolvable = FALSE
  /\ skipDependencyInstall = FALSE
  /\ InitRun
  /\ InitExec
  /\ InitPreviewIdle
  /\ arg \in [text : CapturedTexts]
  /\ res = <<>>

\* this.sanitizeOutput(text)
Sanitize ==
  /\ res = <<>>
  /\ res' = <<sanitizeOutput(arg.text)>>
  /\ UNCHANGED <<cfgVars, previewVars, genVars, runVars, execVars, arg>>

\* this.sanitizeOutput applied to a text that is already sanitized.
SanitizeAgain ==
  /\ Len(res) = 1
  /\ res' = res \o <<sanitizeOutput(res[1])>>
  /\ UNCHANGED <<cfgVars, previewVars, genVars, runVars, execVars, arg>>

NextSanitize == Sanitize \/ SanitizeAgain

SpecSanitize == InitSanitize /\ [][NextSanitize]_vars

----------------------------------------------------------------------------
(* ClaudeService.requiresUITesting as a function of the LLM response and   *)
(* the changed files                                                       *)

MaxFiles == 2

UpperChar(c) ==
  IF \E i \in DOMAIN LowerCase : LowerCase[i] = c
    THEN UpperCase[CHOOSE i \in DOMAIN LowerCase : LowerCase[i] = c]
    ELSE c

toUpperCase(s) == [i \in 1..Len(s) |-> UpperChar(s[i])]

endsWith(s, suffix) == startsWithAt(s, Len(s) - Len(suffix) + 1, suffix)

\* The file test of the NO branch: the substrings and the suffixes it
\* looks for.
obviousSubstrings ==
  {<<"c","o","m","p","o","n","e","n","t">>,
   <<"/","p","a","g","e","s","/">>,
   <<"/","a","p","p","/">>,
   <<"/","s","r","c","/">>}

obviousSuffixes ==
  {<<".","j","s","x">>,
   <<".","t","s","x">>,
   <<".","c","s","s">>,
   <<".","s","c","s","s">>}

hasObviousUIFiles(files) ==
  \E k \in DOMAIN files :
    \/ includesAny(files[k], obviousSubstrings)
    \/ \E suffix \in obviousSuffixes : endsWith(files[k], suffix)

\* uiFilePatterns: the patterns anchored at the end of the name, as the
\* suffixes they accept ...
uiFileSuffixes ==
  {<<".","j","s">>,
   <<".","j","s","x">>,
   <<".","t","s">>,
   <<".","t","s","x">>,
   <<".","v","u","e">>,
   <<".","s","v","e","l","t","e">>,
   <<".","c","s","s">>,
   <<".","s","c","s","s">>,
   <<".","s","a","s","s">>,
   <<".","l","e","s","s">>,
   <<".","s","t","y","l","u","s">>,
   <<".","h","t","m","l">>,
   <<".","h","t","m">>,
   <<".","e","j","s">>,
   <<".","h","b","s">>,
   <<".","p","u","g">>,
   <<".","j","a","d","e">>}

\* ... the pattern /package\.json$/ ...
TxtPackageJson == <<"p","a","c","k","a","g","e",".","j","s","o","n">>

\* ... and the others, as the substrings they accept.
uiFileSubstrings ==
  {<<"/","c","o","m","p","o","n","e","n","t","/">>,
   <<"/","c","o","m","p","o","n","e","n","t","s","/">>,
   <<"/","p","a","g","e","/">>,
   <<"/","p","a","g","e","s","/">>,
   <<"/","a","p","p","/">>,
   <<"/","s","r","c","/">>,
   <<"/","v","i","e","w","/">>,
   <<"/","v","i","e","w","s","/">>,
   <<"/","l","a","y","o","u","t","/">>,
   <<"/","l","a","y","o","u","t","s","/">>,
   <<"/","t","e","m","p","l","a","t","e","/">>,
   <<"/","t","e","m","p","l","a","t","e","s","/">>,
   <<"/","s","t","y","l","e","/">>,
   <<"/","s","t","y","l","e","s","/">>,
   <<"/","c","s","s","/">>,
   <<"/","s","a","s","s","/">>,
   <<"/","s","c","s","s","/">>,
   <<"/","a","s","s","e","t","/">>,
   <<"/","a","s","s","e","t","s","/">>,
   <<"/","p","u","b","l","i","c","/">>,
   <<"/","s","t","a","t","i","c","/">>,
   <<"t","a","i","l","w","i","n","d",".","c","o","n","f","i","g",".">>,
   <<"n","e","x","t",".","c","o","n","f","i","g",".">>,
   <<"n","u","x","t",".","c","o","n","f","i","g",".">>,
   <<"v","i","t","e",".","c","o","n","f","i","g",".">>,
   <<"w","e","b","p","a","c","k",".","c","o","n","f","i","g",".">>}

fallbackUIDetection(files) ==
  \E k \in DOMAIN files :
    \/ \E suffix \in uiFileSuffixes \cup {TxtPackageJson} :
         endsWith(files[k], suffix)
    \/ includesAny(files[k], uiFileSubstrings)

\* What the try block makes of the response: the fetch rejects, the status
\* is not OK, the body has no content[0].text (a TypeError), or the text is
\* trimmed, upper-cased and compared.
answerOf(response) ==
  IF response.kind = "reject" THEN "THROW"
  ELSE IF response.kind = "not_ok" THEN "NOT_OK"
  ELSE IF response.kind = "malformed" THEN "THROW"
  ELSE LET result == toUpperCase(trim(response.text))
       IN IF result = <<"Y","E","S">> THEN "YES"
          ELSE IF result = <<"N","O">> THEN "NO"
          ELSE "OTHER"

\* requiresUITesting without its catch block.
requiresUITestingOfNoCatch(response, files) ==
  IF answerOf(response) = "THROW"
    THEN [threw |-> TRUE, value |-> FALSE]
    ELSE [threw |-> FALSE,
          value |-> requiresUITesting(answerOf(response),
                                      hasObviousUIFiles(files),
                                      fallbackUIDetection(files))]

\* requiresUITesting(prContext) for a response of the LLM.
requiresUITestingOf(response, files) ==
  [threw |-> FALSE,
   value |-> requiresUITesting(answerOf(response), hasObviousUIFiles(files),
                               fallbackUIDetection(files))]

AnswerTexts ==
  {<<"Y","E","S">>,
   <<"y","e","s","\n">>,
   <<" ","N","o">>,
   <<"N","O">>,
   <<"M","a","y","b","e">>,
   <<"Y","E","S",","," ","i","t"," ","d","o","e","s">>,
   <<>>}

Responses ==
  {[kind |-> k, text |-> <<>>] : k \in {"reject", "not_ok", "malformed"}}
    \cup {[kind |-> "text", text |-> t] : t \in AnswerTexts}

FileNames ==
  {<<"R","E","A","D","M","E",".","m","d">>,
   <<"d","o","c","s","/","g","u","i","d","e",".","m","d">>,
   <<"s","r","c","/","A","p","p",".","t","s","x">>,
   <<"l","i","b","/","u","t","i","l",".","p","y">>,
   <<"p","a","c","k","a","g","e",".","j","s","o","n">>,
   <<"a","p","i","/","s","r","c","/","m","a","i","n",".","p","y">>,
   <<"w","e","b","/","v","i","e","w","s","/","h","o","m","e",".","e","r",
      "b">>,
   <<"s","t","y","l","e","s",".","c","s","s">>}

FileSeqs == UNION {[1..n -> FileNames] : n \in 0..MaxFiles}

InitUI ==
  /\ gen = "service"
  /\ executor = "C"
  /\ isPR = TRUE
  /\ hasInputs = TRUE
  /\ commentOnPR = TRUE
  /\ moduleResolvable = FALSE
  /\ skipDependencyInstall = FALSE
  /\ InitRun
  /\ InitExec
  /\ InitPreviewIdle
  /\ arg \in [response : Responses, files : FileSeqs]
  /\ res = <<>>

\* await this.claudeService.requiresUITesting(prContext)
CallRequiresUITesting ==
  /\ res = <<>>
  /\ res' = <<requiresUITestingOf(arg.response, arg.files)>>
  /\ UNCHANGED <<cfgVars, previewVars, genVars, runVars, execVars, arg>>

NextUI == CallRequiresUITesting

SpecUI == InitUI /\ [][NextUI]_vars

----------------------------------------------------------------------------
(* run(): waiting for preview URLs and the base URL override *)

MaxWaitSteps == 2

\* const pollInterval = 10000
pollInterval == 10000

UrlDiscovered == "https://pr-7.preview.example.dev"
UrlPolled == "https://pr-7-git-main.vercel.app"
UrlBase == "https://staging.example.com"

\* The wait-for-preview input as index.js parses it: a number of seconds.
\* A negative number is kept; 0 and a missing or unreadable input give 60.
WaitInputs == {-10, 0} \cup {10 * k : k \in 1..MaxWaitSteps}

\* parseInt(core.getInput("wait-for-preview")) || 60, and in the constructor
\* config.waitForPreview || 60
waitForPreviewOf(input) == IF input = 0 THEN DefaultWaitForPreview ELSE input

\* How long one getPreviewUrls call can take, and how late the poll timer
\* can fire, in milliseconds.
PollDurations == {0, 4000}
TimerLateness == {0, 1000}

\* const waitTime = maxWaitTime || this.waitForPreview * 1000, run() passing
\* no maxWaitTime
waitTime == waitForPreview * 1000

\* run() has fetched the PR context and the applicability check said yes.
InitPreview ==
  /\ gen = "legacy"
  /\ executor = "none"
  /\ isPR = TRUE
  /\ hasInputs = TRUE
  /\ commentOnPR = TRUE
  /\ moduleResolvable = FALSE
  /\ skipDependencyInstall = FALSE
  /\ InitExec
  /\ pc = "previewUrls"
  /\ err = "none"
  /\ effects = {"getPRContext", "llm"}
  /\ trouble = {}
  /\ runOutcome = "none"
  /\ resultSuccess = TRUE
  /\ failed = FALSE
  /\ failedMsg = "none"
  /\ outputs = FALSE
  /\ testResults = <<>>
  /\ comment = NoComment
  /\ script = NoScript
  /\ baseUrl \in {"", UrlBase}
  /\ waitForPreview \in {waitForPreviewOf(w) : w \in WaitInputs}
  /\ arg \in [previewUrls : {<<>>, <<UrlDiscovered>>}]
  /\ previewUrls = arg.previewUrls
  /\ polls = 0
  /\ elapsed = 0
  /\ urls = <<>>
  /\ steps = <<>>
  /\ res = <<>>

\* if (!this.baseUrl && prContext.previewUrls.length === 0 &&
\*     this.waitForPreview > 0), then waitForPreviewUrls up to its loop
WaitForPreviewIfNeeded ==
  /\ pc = "previewUrls"
  /\ pc' = IF baseUrl = "" /\ previewUrls = <<>> /\ waitForPreview > 0
             THEN "poll" ELSE "baseUrl"
  /\ elapsed' = 0
  /\ UNCHANGED <<cfgVars, genVars, err, effects, trouble, runOutcome, resultSuccess,
                 failed, failedMsg, outputs, testResults, comment, script,
                 execVars, baseUrl, waitForPreview, previewUrls, polls, urls,
                 fnVars>>

\* One turn of the loop: getPreviewUrls, and the return into run() when it
\* found something.
Poll ==
  /\ pc = "poll"
  /\ elapsed < waitTime
  /\ \E found \in {<<>>, <<UrlPolled>>}, d \in PollDurations :
       /\ urls' = found
       /\ elapsed' = elapsed + d
       /\ polls' = polls + 1
       /\ effects' = effects \cup {"getPreviewUrls"}
       /\ IF Len(found) > 0
            THEN /\ previewUrls' = found
                 /\ pc' = "baseUrl"
            ELSE /\ pc' = "sleep"
                 /\ UNCHANGED previewUrls
  /\ UNCHANGED <<cfgVars, genVars, err, trouble, runOutcome, resultSuccess, failed,
                 failedMsg, outputs, testResults, comment, script, execVars,
                 baseUrl, waitForPreview, fnVars>>

\* The mutation: the loop does not wait between two polls.
SleepNoDelay ==
  /\ pc = "sleep"
  /\ pc' = "poll"
  /\ UNCHANGED <<cfgVars, genVars, err, effects, trouble, runOutcome, resultSuccess,
                 failed, failedMsg, outputs, testResults, comment, script,
                 execVars, previewVars, fnVars>>

\* await new Promise((resolve) => setTimeout(resolve, pollInterval))
Sleep ==
  /\ pc = "sleep"
  /\ pc' = "poll"
  /\ \E late \in TimerLateness : elapsed' = elapsed + pollInterval + late
  /\ UNCHANGED <<cfgVars, genVars, err, effects, trouble, runOutcome, resultSuccess,
                 failed, failedMsg, outputs, testResults, comment, script,
                 execVars, baseUrl, waitForPreview, previewUrls, polls, urls,
                 fnVars>>

\* The loop condition fails: the warning, return [], and run() keeps the
\* list it had.
WaitTimedOut ==
  /\ pc = "poll"
  /\ ~(elapsed < waitTime)
  /\ pc' = "baseUrl"
  /\ effects' = effects \cup {"warning"}
  /\ UNCHANGED <<cfgVars, genVars, err, trouble, runOutcome, resultSuccess, failed,
                 failedMsg, outputs, testResults, comment, script, execVars,
                 previewVars, fnVars>>

\* The mutation: the base URL fills in only when nothing was discovered.
UseBaseUrlWhenNoneFound ==
  /\ pc = "baseUrl"
  /\ pc' = "generate"
  /\ previewUrls' = IF baseUrl # "" /\ previewUrls = <<>>
                      THEN <<baseUrl>> ELSE previewUrls
  /\ UNCHANGED <<cfgVars, genVars, err, effects, trouble, runOutcome, resultSuccess,
                 failed, failedMsg, outputs, testResults, comment, script,
                 execVars, baseUrl, waitForPreview, polls, elapsed, urls,
                 fnVars>>

\* if (this.baseUrl) { prContext.previewUrls = [this.baseUrl]; }
UseBaseUrl ==
  /\ pc = "baseUrl"
  /\ pc' = "generate"
  /\ previewUrls' = IF baseUrl # "" THEN <<baseUrl>> ELSE previewUrls
  /\ UNCHANGED <<cfgVars, genVars, err, effects, trouble, runOutcome, resultSuccess,
                 failed, failedMsg, outputs, testResults, comment, script,
                 execVars, baseUrl, waitForPreview, polls, elapsed, urls,
                 fnVars>>

NextPreview ==
  \/ WaitForPreviewIfNeeded
  \/ Poll
  \/ Sleep
  \/ WaitTimedOut
  \/ UseBaseUrl

SpecPreview == InitPreview /\ [][NextPreview]_vars

----------------------------------------------------------------------------
(* The timeout of the script's execution as a function of the input *)

MaxTimeoutSteps == 12

\* The timeout input in seconds; 0 stands for an input that is not given,
\* for which action.yaml supplies "120".
TimeoutInputs == {0} \cup {30 * k : k \in 1..MaxTimeoutSteps}

\* action.yaml: timeout, default "120"
timeoutInputSeconds(input) == IF input = 0 THEN 120 ELSE input

\* index.js: const timeout = 600000; the input is not read.
configTimeout(input) == 600000

\* timeout: config.timeout || 120000, in the constructor of either
\* PRTestGenerator
generatorTimeout(timeout) == IF timeout = 0 THEN 120000 ELSE timeout

\* this.timeout in the constructor of each TestExecutor, given config.timeout
executorTimeout(e, timeout) ==
  IF e = "A" THEN (IF timeout = 0 THEN 120000 ELSE timeout)
  ELSE IF e = "B" THEN 120000
  ELSE 240000

\* The milliseconds given to execAsync (legacy, executor A) or to setTimeout
\* in executeWithRealTimeLogging (executors B and C).
scriptTimeout(g, e, input) ==
  IF g = "legacy" THEN generatorTimeout(configTimeout(input))
  ELSE executorTimeout(e, generatorTimeout(configTimeout(input)))

InitTimeout ==
  /\ gen \in Generators
  /\ executor \in IF gen = "service" THEN Executors ELSE {"none"}
  /\ isPR = TRUE
  /\ hasInputs = TRUE
  /\ commentOnPR = TRUE
  /\ moduleResolvable = FALSE
  /\ skipDependencyInstall = FALSE
  /\ InitRun
  /\ InitExec
  /\ InitPreviewIdle
  /\ arg \in [timeout : TimeoutInputs]
  /\ res = <<>>

\* The script is started under its timeout.
StartUnderTimeout ==
  /\ res = <<>>
  /\ res' = <<scriptTimeout(gen, executor, arg.timeout)>>
  /\ UNCHANGED <<cfgVars, previewVars, genVars, runVars, execVars, arg>>

NextTimeout == StartUnderTimeout

SpecTimeout == InitTimeout /\ [][NextTimeout]_vars

----------------------------------------------------------------------------
(* generateTests: the steps of the LLM conversation                        *)
(* "legacy": plan, code (part_002:470-483); "navigation": plan, navigation *)
(* paths, code (part_000:252-281); "service": plan, sitemap, QA            *)
(* instructions, code (part_002:1460-1531).                                *)

GenerateVariants == {"legacy", "navigation", "service"}

\* A completed LLM step: the value it produced and the values it was called
\* with.
Step(name, given) == [step |-> name, given |-> given]

\* run() stands before generateTests; in the service generator arg says
\* whether the relevance check has handed over a sitemap.
InitGenerate ==
  /\ gen \in GenerateVariants
  /\ executor = IF gen = "legacy" THEN "none" ELSE "C"
  /\ isPR = TRUE
  /\ hasInputs = TRUE
  /\ commentOnPR \in BOOLEAN
  /\ moduleResolvable = FALSE
  /\ skipDependencyInstall = FALSE
  /\ InitExec
  /\ InitPreviewIdle
  /\ pc = "generate"
  /\ err = "none"
  /\ effects = {"getPRContext", "llm"}
  /\ trouble = {}
  /\ runOutcome = "none"
  /\ resultSuccess = TRUE
  /\ failed = FALSE
  /\ failedMsg = "none"
  /\ outputs = FALSE
  /\ testResults = <<>>
  /\ comment = NoComment
  /\ script = NoScript
  /\ arg \in [providedSitemap : IF gen = "service" THEN BOOLEAN ELSE {FALSE}]
  /\ res = <<>>

\* A step that failed: the error leaves generateTests for the catch block
\* of run().
StepThrows ==
  /\ pc' = "catch"
  /\ err' = "llm"
  /\ trouble' = trouble \cup {"llm"}
  /\ UNCHANGED steps

\* const testPlan = await analyzeAndPlan(prContext)
AnalyzeAndPlan ==
  /\ pc = "generate"
  /\ effects' = effects \cup {"llm"}
  /\ \/ StepThrows
     \/ /\ steps' = Append(steps, Step("testPlan", {"prContext"}))
        /\ pc' = IF gen = "legacy" THEN "code"
                 ELSE IF gen = "navigation" THEN "navigate"
                 ELSE "loadSitemap"
        /\ UNCHANGED <<err, trouble>>
  /\ UNCHANGED <<cfgVars, previewVars, comment, runOutcome, resultSuccess,
                 failed, failedMsg, outputs, testResults, script, execVars,
                 fnVars>>

\* const navigationPaths = await analyzeNavigationPaths(testPlan, prContext)
AnalyzeNavigationPaths ==
  /\ pc = "navigate"
  /\ effects' = effects \cup {"llm"}
  /\ \/ StepThrows
     \/ /\ steps' = Append(steps, Step("navigationPaths",
                                       {"testPlan", "prContext"}))
        /\ pc' = "code"
        /\ UNCHANGED <<err, trouble>>
  /\ UNCHANGED <<cfgVars, previewVars, comment, runOutcome, resultSuccess,
                 failed, failedMsg, outputs, testResults, script, execVars,
                 fnVars>>

\* Where the sitemap comes from when none was handed over: a readable
\* sitemap.json, or discoverRoutes, which can throw.
SitemapSources == {"file", "discovered", "throws"}

\* The sitemap: the one handed over, sitemap.json, or discoverRoutes. This
\* is not a call to the LLM service and so not a step of the conversation.
LoadSitemap ==
  /\ pc = "loadSitemap"
  /\ \E source \in IF arg.providedSitemap THEN {"provided"}
                                          ELSE SitemapSources :
       /\ effects' = effects \cup
            (IF source \in {"discovered", "throws"} THEN {"discoverRoutes"}
                                                    ELSE {})
       /\ IF source = "throws"
            THEN StepThrows
            ELSE /\ pc' = "qa"
                 /\ UNCHANGED <<steps, err, trouble>>
  /\ UNCHANGED <<cfgVars, previewVars, comment, runOutcome, resultSuccess,
                 failed, failedMsg, outputs, testResults, script, execVars,
                 fnVars>>

\* const qaInstructions = await generateQAInstructions(testPlan, prContext,
\* sitemap)
GenerateQAInstructions ==
  /\ pc = "qa"
  /\ effects' = effects \cup {"llm"}
  /\ \/ StepThrows
     \/ /\ steps' = Append(steps, Step("qaInstructions",
                                       {"testPlan", "prContext", "sitemap"}))
        /\ pc' = "code"
        /\ UNCHANGED <<err, trouble>>
  /\ UNCHANGED <<cfgVars, previewVars, comment, runOutcome, resultSuccess,
                 failed, failedMsg, outputs, testResults, script, execVars,
                 fnVars>>

\* The values generateTestCode is called with.
codeInputs(g) ==
  IF g = "legacy" THEN {"testPlan", "prContext"}
  ELSE IF g = "navigation" THEN {"testPlan", "prContext", "navigationPaths"}
  ELSE {"testPlan", "prContext", "sitemap"}

\* const testCode = await generateTestCode(...); return testCode
GenerateTestCode ==
  /\ pc = "code"
  /\ effects' = effects \cup {"llm"}
  /\ \/ /\ StepThrows
        /\ UNCHANGED script
     \/ /\ steps' = Append(steps, Step("testCode", codeInputs(gen)))
        /\ script' \in Scripts
        /\ pc' = IF gen = "legacy" THEN "write" ELSE "exec"
        /\ UNCHANGED <<err, trouble>>
  /\ UNCHANGED <<cfgVars, previewVars, comment, runOutcome, resultSuccess,
                 failed, failedMsg, outputs, testResults, execVars, fnVars>>

NextGenerate ==
  \/ AnalyzeAndPlan
  \/ AnalyzeNavigationPaths
  \/ LoadSitemap
  \/ GenerateQAInstructions
  \/ GenerateTestCode
  \/ Catch
  \/ IndexFinish

SpecGenerate == InitGenerate /\ [][NextGenerate]_vars

----------------------------------------------------------------------------
(* Properties *)

ExecTrouble == {"install", "spawn", "exit", "timeout"}

\* C1: executeTestsAndGenerateReport never throws for a failure of the
\* EXECUTE stage; after an install failure, a spawn error, a non-zero exit or
\* a timeout it returns a report with success = true and executionSkipped =
\* true.
C1_ExecuteFailureIsSkippedReport ==
  /\ report.kind # "threw"
  /\ (report.kind = "returned" /\ trouble \cap ExecTrouble # {})
       => (report.success /\ report.executionSkipped)

\* C2: at the outer boundary of PRTestGenerator.run() the success flag is
\* true, and a run in which execution or the dependency install failed
\* returns (does not throw) with success = true.
C2_SuccessAtOuterBoundary ==
  /\ runOutcome = "returned" => resultSuccess
  /\ (runOutcome # "none" /\ trouble \cap ExecTrouble # {})
       => (runOutcome = "returned" /\ resultSuccess)

\* C3: once executeTestsAndGenerateReport has written temp-test.js, the file
\* is gone by the time the call returns, on every exit path (exit code 0,
\* non-zero exit, timeout, spawn error), unless unlink itself failed.
C3_TempFileRemovedOnReturn ==
  (report.kind \in {"returned", "threw"} /\ "unlink" \notin trouble)
    => ~tempFile

\* C4 as stated: when the operation has resolved as TIMED_OUT the timer has
\* fired and the child process is no longer running.
C4_ChildGoneOnceTimedOut ==
  settled = "TIMED_OUT" =>
    (timer = "fired" /\ child.st \in {"exited", "closed"})

\* C4 amended: the timer fires only on a pending operation and makes it
\* TIMED_OUT; a child still running at that moment has been sent SIGTERM
\* exactly once, but its exit is not awaited, so it may still be running
\* after the operation has resolved.
C4_TimeoutSignalsAndRejects ==
  /\ timer = "fired" => (settled = "TIMED_OUT" /\ kills <= 1)
  /\ settled = "TIMED_OUT" =>
       /\ timer = "fired"
       /\ child.st # "running"
       /\ child.st = "signalled" => kills = 1

C4_Witness ==
  /\ settled = "TIMED_OUT"
  /\ child.st = "signalled"
  /\ kills = 1
  /\ report.kind = "returned"

FailurePhrases == {
  <<"t","e","s","t"," ","s","u","i","t","e"," ","f","a","i","l","e","d">>,
  <<"p","r","o","c","e","s","s",".","e","x","i","t","(","1",")">>,
  <<"a","l","l"," ","t","e","s","t","s"," ","f","a","i","l","e","d">>,
  <<"f","a","i","l","e","d">>,
  <<"e","r","r","o","r",":"," ","t","e","s","t">> }

SuccessPhrases == {
  <<"a","l","l"," ","t","e","s","t","s"," ","c","o","m","p","l","e","t","e","d",
    " ","s","u","c","c","e","s","s","f","u","l","l","y">>,
  <<"t","e","s","t","s"," ","p","a","s","s","e","d">>,
  <<"s","u","c","c","e","s","s">>,
  <<"t","e","s","t"," ","c","o","m","p","l","e","t","e","d">> }

HasFailurePhrase(a) ==
  includesAny(toLowerCase(a.stdout \o a.stderr), FailurePhrases)

HasSuccessPhrase(a) ==
  includesAny(toLowerCase(a.stdout \o a.stderr), SuccessPhrases)

\* C5: determineTestSuccess is phrase-priority-ordered: a failure phrase in
\* the lower-cased stdout+stderr gives FAILED whatever else is there;
\* otherwise a success phrase gives PASSED whatever the exit code; otherwise
\* the verdict is PASSED exactly when the exit code is 0.
C5_PhrasePriority ==
  res # <<>> =>
    res[1] = (IF HasFailurePhrase(arg) THEN FALSE
              ELSE IF HasSuccessPhrase(arg) THEN TRUE
              ELSE arg.exitCode = 0)

C5_Witness ==
  /\ res = <<FALSE>>
  /\ HasFailurePhrase(arg)
  /\ HasSuccessPhrase(arg)
  /\ arg.exitCode = 0

\* C6: the verdict executeTests reports for a script run is the
\* determineTestSuccess verdict for its captured output and exit code.
C6_ReportedVerdictIsClassified ==
  (testResults # <<>> /\ "exec" \in effects) =>
    testResults.success =
      determineTestSuccess(testResults.stdout, testResults.stderr,
                           IF script.mode = "exit" THEN script.exitCode ELSE 1)

\* C7: the entry point calls setFailed only for a setup error or an error
\* thrown by run(); whenever run() returns a result, also one with
\* success = false or with execution skipped, it sets the outputs and does
\* not call setFailed.
C7_FailedOnlyOnSetupOrThrow ==
  /\ failed => (failedMsg \in {"input", "not_pr"} \/ runOutcome = "threw")
  /\ outputs => runOutcome = "returned"
  /\ (pc = "done" /\ runOutcome = "returned") => (outputs /\ ~failed)

C7_Witness ==
  /\ pc = "done"
  /\ runOutcome = "returned"
  /\ ~resultSuccess
  /\ "exit" \in trouble
  /\ outputs
  /\ ~failed

\* C8: in a run that reaches REPORT with commenting enabled a result comment
\* is attempted, and a failure of that attempt neither makes run() throw nor
\* marks the action failed.
C8_ReportFailureOnlyLogged ==
  /\ (commentOnPR /\ "report" \in effects) => "comment_result" \in effects
  /\ "comment_result" \in trouble => (runOutcome # "threw" /\ ~failed)

CollaboratorErrors == {"github", "llm"}

C10_NotPRDoesNothing ==
  ~isPR =>
    /\ effects = {}
    /\ ~outputs
    /\ runOutcome = "none"
    /\ ~tempFile
    /\ child.st = "none"
    /\ pc \in {"index", "done"}
    /\ pc = "done" => failed

C10_Witness ==
  /\ pc = "done"
  /\ ~isPR
  /\ hasInputs
  /\ failed
  /\ failedMsg = "not_pr"

\* C11: when the dependency install (package install or browser install)
\* fails, executeTestsAndGenerateReport returns a report with
\* executionSkipped = true, success = true and a non-empty testCases list in
\* which every case has status READY_TO_RUN. (That the call returns at all
\* is C1; this is about the report it returns.)
C11_InstallFailureReadyToRun ==
  (gen = "service" /\ "install" \in trouble /\ report.kind = "returned") =>
    /\ report.executionSkipped
    /\ report.success
    /\ report.hasTestCases
    /\ Len(report.testCases) > 0
    /\ \A i \in DOMAIN report.testCases : report.testCases[i] = "READY_TO_RUN"

\* The description of a line built by TestNComment or NumberedComment.
DescOf(line) ==
  CHOOSE d \in Descs :
    \E n \in Digits : line \in {TestNComment(n, d), NumberedComment(n, d)}

IsTestNComment(line) == line \in TestLines

Names(cases) == [k \in DOMAIN cases |-> cases[k].name]

\* C12 as stated: for a script with at least one `// Test N: <desc>`
\* comment, parseTestCasesFromCode returns exactly one case per such comment
\* and no other case, in source order, each named desc.trim() and GENERATED.
C12_OneCasePerTestComment ==
  (res # <<>> /\ \E i \in DOMAIN arg.lines : IsTestNComment(arg.lines[i])) =>
    LET comments == SelectSeq(arg.lines, IsTestNComment) IN
    /\ Names(res[1]) = [k \in DOMAIN comments |-> trim(DescOf(comments[k]))]
    /\ \A k \in DOMAIN res[1] : res[1][k].status = "GENERATED"

\* The description the comment pattern finds on a line, <<>> if none: the
\* text after `// Test N:` or `// N.`, or after any `//` followed by `Test`
\* (the rest of `// Testing helpers`, the rest of a URL `http://test...`).
Description(line) ==
  IF line \in TestLines \cup {NumberedLine} THEN <<DescOf(line)>>
  ELSE IF line = TestingLine THEN <<<<"i","n","g"," ","h","e","l","p","e","r","s">>>>
  ELSE IF line = UrlLine THEN <<UrlTail \o TestNComment("5", DescRemote)>>
  ELSE <<>>

\* A line that yields a case: its description has more than 5 characters
\* after trimming.
YieldsCase(line) ==
  Description(line) # <<>> /\ Len(trim(Description(line)[1])) > 5

\* C12 amended: for a script in which at least one line matches the comment
\* pattern with a description of more than 5 characters after trimming,
\* parseTestCasesFromCode returns exactly one case per such line and no
\* other, in source order, each named by the trimmed description, numbered
\* by its line and GENERATED; `// N. <desc>` comments count as well, and a
\* `// Test N: <desc>` comment with a shorter description yields no case.
C12_OneCasePerMatchingLine ==
  (res # <<>> /\ \E i \in DOMAIN arg.lines : YieldsCase(arg.lines[i])) =>
    LET at == {i \in DOMAIN arg.lines : YieldsCase(arg.lines[i])}
        nth(k) == CHOOSE i \in at : Cardinality({j \in at : j <= i}) = k
    IN /\ Len(res[1]) = Cardinality(at)
       /\ \A k \in DOMAIN res[1] :
            /\ res[1][k].name = trim(Description(arg.lines[nth(k)])[1])
            /\ res[1][k].lineNumber = nth(k)
            /\ res[1][k].status = "GENERATED"

C12_Witness ==
  /\ res # <<>>
  /\ arg.lines = <<TestNComment("4", DescGo), TestNComment("2", DescCart)>>
  /\ Names(res[1]) = <<<<"O","p","e","n","s"," ","t","h","e"," ","c","a","r","t">>>>

\* C13: parseTestCasesFromCode applies its rules in the order single-line
\* comments, block comments, automation calls, placeholder and returns only
\* the cases of the first rule that yields one; a script without comments and
\* automation calls gives exactly the one case "Generated test execution";
\* the result is never empty.
C13_FirstRuleWins ==
  res # <<>> =>
    LET testCode == testCodeOf(arg.lines)
        rule1 == lineCommentCases(split(testCode, "\n"), 1)
        rule2 == blockCommentCases(blockComments(testCode, 1), 1)
        rule3 == patternCases(testCode, 1, 1)
        placeholder ==
          <<[name |-> TxtGenerated, status |-> "GENERATED", lineNumber |-> 1]>>
    IN /\ res[1] # <<>>
       /\ res[1] = IF rule1 # <<>> THEN rule1
                   ELSE IF rule2 # <<>> THEN rule2
                   ELSE IF rule3 # <<>> THEN rule3
                   ELSE placeholder
       /\ (\E i \in DOMAIN arg.lines : YieldsCase(arg.lines[i])) =>
            Len(res[1]) =
              Cardinality({i \in DOMAIN arg.lines : YieldsCase(arg.lines[i])})
       /\ (\A i \in DOMAIN arg.lines : arg.lines[i] = PlainLine) =>
            res[1] = placeholder

C13_Witness ==
  /\ res # <<>>
  /\ arg.lines = <<NavigateLine, BlockLine>>
  /\ Names(res[1]) = <<BlockText>>

\* C14: the output of sanitizeOutput for a text that contains the configured
\* test-user email does not contain that email.
C14_EmailNotInOutput ==
  (res # <<>> /\ includes(arg.text, TestUserEmail)) =>
    ~includes(res[1], TestUserEmail)

\* C16: sanitizeOutput is idempotent on texts built from the secret shapes
\* and ordinary text: sanitizing a sanitized text changes nothing.
C16_SanitizeIdempotent ==
  Len(res) = 2 => res[2] = res[1]

C16_Witness ==
  /\ Len(res) = 2
  /\ arg.text = TxtKeyLower \o TxtSecret
  /\ res[1] = TxtAssignmentRedacted
  /\ res[2] = TxtAssignmentRedacted

\* The texts of a result comment that were captured from the script.
CommentTexts(c) ==
  {c.stdout, c.stderr}
    \cup {c.browserErrors[k] : k \in DOMAIN c.browserErrors}
    \cup {c.analysis.completedTasks[k] : k \in DOMAIN c.analysis.completedTasks}

\* C15: sanitize last, classify first: every text captured from the script
\* that is in the posted result comment (stdout, stderr, browser errors, the
\* analysis derived from stdout) has passed through sanitizeOutput, so
\* sanitizeOutput finds nothing left to redact in it; and the analysis is the
\* one of the output before it was sanitized.
C15_CommentTextsSanitized ==
  comment # NoComment =>
    /\ \A t \in CommentTexts(comment) : sanitizeOutput(t) = t
    /\ comment.analysis =
         parseTestResults(IF testResults.stdout # <<>>
                            THEN stripAnsiCodes(testResults.stdout)
                            ELSE TxtNoOutput)

\* The responses that give no verdict: a rejected request, a status that is
\* not OK, a body without the answer text, an answer that is neither YES nor
\* NO.
Inconclusive(response) ==
  \/ response.kind \in {"reject", "not_ok", "malformed"}
  \/ response.text \in {<<"M","a","y","b","e">>, <<"Y","E","S",","," ","i","t"," ","d","o","e","s">>, <<>>}

\* C17: the applicability check never blocks the run on the LLM: for a
\* request that fails, a malformed body or an answer other than YES or NO,
\* requiresUITesting does not throw and returns what fallbackUIDetection
\* returns for the changed files.
C17_FallbackOnInconclusive ==
  (res # <<>> /\ Inconclusive(arg.response)) =>
    /\ ~res[1].threw
    /\ res[1].value = fallbackUIDetection(arg.files)

C17_Witness ==
  /\ res # <<>>
  /\ arg.response.kind = "malformed"
  /\ arg.files = <<<<"R","E","A","D","M","E",".","m","d">>, <<"p","a","c","k","a","g","e",".","j","s","o","n">>>>
  /\ res[1] = [threw |-> FALSE, value |-> TRUE]

\* C18: when a base URL is supplied, run() never polls for preview URLs, and
\* the list handed to test generation is exactly the one-element list of the
\* base URL, whatever URLs the PR context held.
C18_BaseUrlWins ==
  baseUrl # "" =>
    /\ polls = 0
    /\ pc \notin {"poll", "sleep"}
    /\ pc = "generate" => previewUrls = <<baseUrl>>

C18_Witness ==
  /\ pc = "generate"
  /\ baseUrl # ""
  /\ arg.previewUrls = <<UrlDiscovered>>
  /\ previewUrls = <<baseUrl>>

\* waitForPreviewUrls has returned into run().
Waited == polls > 0 /\ pc \in {"baseUrl", "generate"}

\* C19: waitForPreviewUrls polls at the poll interval; it returns the URLs of
\* the first poll that finds any and polls no more; otherwise it returns the
\* empty list once the configured wait has elapsed. The number of polls is
\* bounded by the wait divided by the interval, so it never polls forever.
C19_PollingStops ==
  /\ polls > 0 => (polls - 1) * pollInterval < waitForPreview * 1000
  /\ pc = "poll" => elapsed >= polls * pollInterval
  /\ pc \in {"poll", "sleep"} => urls = <<>>
  /\ Waited /\ urls # <<>> => previewUrls = urls
  /\ Waited /\ urls = <<>> =>
       /\ elapsed >= waitForPreview * 1000
       /\ previewUrls = <<>>

C19_Witness ==
  /\ Waited
  /\ polls > 1
  /\ urls = <<>>
  /\ pc = "generate"

\* C20: the timeout under which the generated script runs is the action's
\* timeout input, in seconds (120 when the input is not given).
C20_TimeoutIsTheInput ==
  res # <<>> => res[1] = timeoutInputSeconds(arg.timeout) * 1000

\* The close event of a started child arrived while the timer was armed.
ClosedBeforeTimeout ==
  child.st = "closed" /\ timer = "cleared" /\ "spawn" \notin trouble

\* C21: when the child closes before the timeout fires, exit code 0 resolves
\* executeWithRealTimeLogging as COMPLETED with the accumulated stdout and
\* stderr; any other code, the null code of a child ended by a signal
\* included, rejects it as FAILED with an error that carries the accumulated
\* stdout and stderr, the exit code and the signal.
C21_CloseSettlesWithOutput ==
  ClosedBeforeTimeout =>
    IF child.code = "0"
      THEN /\ settled = "COMPLETED"
           /\ outcome = [kind |-> "resolved", stdout |-> stdoutBuf,
                         stderr |-> stderrBuf]
      ELSE /\ settled = "FAILED"
           /\ outcome.kind = "rejected"
           /\ outcome.stdout = stdoutBuf
           /\ outcome.stderr = stderrBuf
           /\ outcome.code = child.code
           /\ outcome.signal = child.signal

C21_Witness ==
  /\ ClosedBeforeTimeout
  /\ child.code = "null"
  /\ child.signal = "SIGSEGV"
  /\ settled = "FAILED"
  /\ outcome.stdout = TxtAllOk \o TxtErrFoo
  /\ outcome.stderr = TxtOk

\* The termination signal has been sent at most once, by the timer; the
\* close and the error event leave the timer cancelled if it had not fired,
\* and then nothing was signalled and nothing timed out.
SignalOnlyOnTimeout ==
  /\ kills <= 1
  /\ kills = 1 => timer = "fired"
  /\ child.signal = "SIGTERM" => kills = 1
  /\ (child.st = "closed" \/ "spawn" \in trouble) =>
       timer \in {"cleared", "fired"}
  /\ timer = "cleared" =>
       /\ kills = 0
       /\ settled # "TIMED_OUT"
       /\ "timeout" \notin trouble

\* C22: SIGTERM is sent at most once per run and only by the timeout timer,
\* with no harder signal after it; when the close or the error event comes
\* before the timeout the timer is cancelled, and a cancelled timer never
\* fires: no signal is sent and no timeout callback runs after the child has
\* gone.
C22_SingleSignalTimerCancelled ==
  /\ []SignalOnlyOnTimeout
  /\ [][/\ kills' # kills => (timer = "armed" /\ timer' = "fired")
        /\ timer = "cleared" => timer' = "cleared"
        /\ timer = "fired" => timer' = "fired"]_vars

C22_Witness ==
  /\ timer = "cleared"
  /\ child.st = "closed"
  /\ child.code = "1"
  /\ kills = 0
  /\ pc = "done"

Settlements == {"COMPLETED", "TIMED_OUT", "FAILED"}

\* What the first event of each kind settles the promise with.
SettledBy ==
  [TIMED_OUT |-> {"Command timed out"},
   COMPLETED |-> {"resolved"},
   FAILED |-> {"Command failed", "spawn"}]

\* C23: executeWithRealTimeLogging settles exactly once, as COMPLETED,
\* TIMED_OUT or FAILED: the first of the timeout, close and error events
\* fixes the outcome and resumes the caller once; the close that follows the
\* timeout's signal, or the close that follows an error event, changes
\* neither the state nor the value the promise holds.
C23_SettlesOnce ==
  /\ [](/\ settled \in {"NONE", "PENDING"} \cup Settlements
        /\ settled \in Settlements =>
             (IF outcome.kind = "resolved" THEN "resolved" ELSE outcome.error)
               \in SettledBy[settled]
        /\ settled \in {"NONE", "PENDING"} => outcome = NoOutcome)
  /\ [][/\ settled \in Settlements =>
             (settled' = settled /\ outcome' = outcome /\ pc' # "resume")
        /\ (pc # "resume" /\ pc' = "resume") =>
             (settled = "PENDING" /\ settled' \in Settlements)]_vars

C23_Witness ==
  /\ settled = "TIMED_OUT"
  /\ outcome = CommandTimedOut
  /\ child.st = "closed"
  /\ child.code = "null"
  /\ report.kind = "returned"

\* The order of the steps in each generateTests.
StepOrder(g) ==
  IF g = "legacy" THEN <<"testPlan", "testCode">>
  ELSE IF g = "navigation" THEN <<"testPlan", "navigationPaths", "testCode">>
  ELSE <<"testPlan", "qaInstructions", "testCode">>

\* C24: generateTests runs its steps strictly in order (plan, then the
\* navigation or sitemap step, then code), each step after the first being
\* given the output of the step before it; no step runs twice; an error in
\* any step leaves generateTests, so that execution never starts and the run
\* ends with the error.
C24_OrderedStepsFedForward ==
  /\ Len(steps) <= Len(StepOrder(gen))
  /\ \A k \in DOMAIN steps :
       /\ steps[k].step = StepOrder(gen)[k]
       /\ k > 1 => steps[k - 1].step \in steps[k].given
  /\ "llm" \in trouble =>
       /\ "exec" \notin effects
       /\ pc \in {"catch", "ret", "done"}
       /\ pc # "catch" => runOutcome = "threw"
       /\ pc = "done" => (failed /\ failedMsg = "llm")

\* C25: every report executeTestsAndGenerateReport returns, on each return
\* path (install failure, successful execution, failed execution), carries
\* the testCases list that printTestReport reads, so the print step that
\* follows execution never throws.
C25_ReportCarriesTestCases ==
  /\ report.kind = "returned" => report.hasTestCases
  /\ err # "TypeError"

\* The script was started and its run ended with a non-zero exit, a signal
\* or the timeout.
StartedAndFailed ==
  /\ settled \in {"FAILED", "TIMED_OUT"}
  /\ "spawn" \notin trouble
  /\ report.kind = "returned"

\* C26: when the generated script was started but exited non-zero or timed
\* out, nothing of the stdout and stderr captured so far reaches the report:
\* output is empty, testResults is empty and executionSkipped is true, the
\* report of a script that never started.
C26_FailedRunReportsNoOutput ==
  StartedAndFailed =>
    /\ report.output = <<>>
    /\ report.errors = <<>>
    /\ report.testResults = <<>>
    /\ report.executionSkipped
    /\ report = SkippedReport(1, <<>>)

C26_Witness ==
  /\ StartedAndFailed
  /\ settled = "FAILED"
  /\ child.code = "1"
  /\ outcome.stdout = TxtErrFoo
  /\ outcome.stderr = TxtOk
  /\ report.output = <<>>

\* What the data handler forwards for a sequence of chunks: the non-blank
\* lines of each chunk, chunk by chunk.
Forwarded(chunks) ==
  Concat([k \in DOMAIN chunks |-> nonBlankLines(chunks[k])])

\* C27: for every interleaving of stdout chunks, stderr chunks and the close
\* event, each chunk is appended to the accumulated text of its stream in
\* arrival order and its non-blank lines are forwarded to the host log when
\* it arrives, so before the run settles; the stdout and stderr returned on
\* exit code 0 are exactly the concatenation of all chunks the child wrote
\* on each stream.
C27_ChunksAccumulatedAndForwarded ==
  child.st # "none" =>
    /\ stdoutBuf = Concat(emitted.out)
    /\ stderrBuf = Concat(emitted.err)
    /\ hostLog.info = Forwarded(emitted.out)
    /\ hostLog.error = Forwarded(emitted.err)
    /\ settled = "COMPLETED" =>
         /\ script.out = <<>>
         /\ script.err = <<>>
         /\ outcome.stdout = Concat(emitted.out)
         /\ outcome.stderr = Concat(emitted.err)

C27_Witness ==
  /\ settled = "COMPLETED"
  /\ emitted.out = <<TxtNarration, TxtAllOk>>
  /\ emitted.err = <<TxtOk>>
  /\ Len(hostLog.info) = 3
  /\ hostLog.error = <<TxtOk>>
  /\ outcome.stdout = TxtNarration \o TxtAllOk

\* C28: requiresUITesting returns false in exactly two cases: the LLM
\* answered NO and no changed file passes the obvious-UI-file check, or the
\* fallback allow-list was used (failed request, malformed body, an answer
\* other than YES or NO) and no changed file matches it.  An answer of YES
\* always yields true, and an answer of NO yields true when an obvious UI
\* file is among the changed files.
C28_FalseInExactlyTwoCases ==
  res # <<>> =>
    LET answer == answerOf(arg.response)
        obvious == hasObviousUIFiles(arg.files)
        listed == fallbackUIDetection(arg.files)
    IN /\ ~res[1].threw
       /\ (res[1].value = FALSE) <=>
            \/ answer = "NO" /\ ~obvious
            \/ answer \notin {"YES", "NO"} /\ ~listed
       /\ answer = "YES" => res[1].value = TRUE
       /\ (answer = "NO" /\ obvious) => res[1].value = TRUE

C28_Witness ==
  /\ res # <<>>
  /\ answerOf(arg.response) = "NO"
  /\ hasObviousUIFiles(arg.files)
  /\ res[1] = [threw |-> FALSE, value |-> TRUE]

\* C29: if the required module is already resolvable, the provisioning step
\* of executeTestsAndGenerateReport is a no-op: neither the package install
\* nor the browser-binary install runs before the script is executed.
C29_ResolvableModuleSkipsInstall ==
  (gen = "service" /\ moduleResolvable) => "install" \notin effects

----------------------------------------------------------------------------
(* parseTestResults as a function of the captured stdout *)

MaxOutputLines == 7

\* Lines of the agent's narration: two actions, a completion and a line
\* that carries no marker.
OutClickLine == ActMarker \o <<" ","C","l","i","c","k">>
OutTypeLine == <<" ", " ">> \o ActMarker \o <<" ","T","y","p","e">>
OutDoneLine == DoneMarker
OutPlainLine == TxtOk

OutputLines == {OutClickLine, OutTypeLine, OutDoneLine, OutPlainLine}

OutputLineSeqs == UNION {[1..n -> OutputLines] : n \in 1..MaxOutputLines}

\* The captured stdout whose lines are `lines`.
RECURSIVE stdoutOf(_)
stdoutOf(lines) ==
  IF Len(lines) = 1 THEN lines[1]
  ELSE lines[1] \o TxtNl \o stdoutOf(Tail(lines))

InitAnalysis ==
  /\ gen = "legacy"
  /\ executor = "none"
  /\ isPR = TRUE
  /\ hasInputs = TRUE
  /\ commentOnPR = TRUE
  /\ moduleResolvable = FALSE
  /\ skipDependencyInstall = FALSE
  /\ InitRun
  /\ InitExec
  /\ InitPreviewIdle
  /\ arg \in [lines : OutputLineSeqs]
  /\ res = <<>>

\* const analysis = this.parseTestResults(rawStdout)
ParseTestResults ==
  /\ res = <<>>
  /\ res' = <<parseTestResults(stdoutOf(arg.lines))>>
  /\ UNCHANGED <<cfgVars, previewVars, genVars, runVars, execVars, arg>>

NextAnalysis == ParseTestResults

SpecAnalysis == InitAnalysis /\ [][NextAnalysis]_vars

\* The text of the action an action marker line narrates.
actionOf(line) == trim(replaceFirst(trim(line), ActMarker))

\* C30: in the output analysis, an action marker line that is followed, at
\* any later line, by a "done" marker is counted as a completed action: its
\* action is among the completed tasks.
C30_ActionFollowedByDoneIsCompleted ==
  res # <<>> =>
    \A i \in DOMAIN arg.lines :
      (/\ includes(arg.lines[i], ActMarker)
       /\ \E j \in (i + 1)..Len(arg.lines) :
            includes(arg.lines[j], DoneMarker)) =>
        \E k \in DOMAIN res[1].completedTasks :
          res[1].completedTasks[k] = actionOf(arg.lines[i])

====
